---- MODULE Spec2Model ----
(***************************************************************************)
(* A model of lithe-db: the Store (src/src/LitheDB.js), its Collections    *)
(* (src/src/Collection.js) and a file-like persistence backend             *)
(* (src/src/Storage.js, FileStorage).                                      *)
(*                                                                         *)
(* Values are sequences of character codes, so that record ids, which the  *)
(* code builds as strings, can be compared as JavaScript compares strings. *)
(***************************************************************************)
EXTENDS Integers, Sequences, FiniteSets, TLC

VARIABLES
  data,             \* LitheDB.data: the live snapshot
  inTransaction,    \* LitheDB.inTransaction
  transactionData,  \* LitheDB.transactionData: <<>> (null) or <<sandbox>>
  disk,             \* the backend's target file: <<>> (no file) or <<snapshot>>
  clock,            \* the wall clock read by new Date()
  last,             \* the last operation called, its arguments and its outcome
  faults,           \* the number of backend calls that have thrown so far
  issued,           \* the serials _getNextSerial has handed out so far
  indexedEmpty,     \* the collections whose unique index was created by a
                    \* createIndex called while the collection was empty
  txBase,           \* <<>>, or <<the live snapshot as it was just before the
                    \* beginTransaction that opened the transaction>>
  returned,         \* the record objects the last call gave back to its caller
  options,          \* LitheDB.options
  bak,              \* the backend's backup: <<>> (none) or <<snapshot>>
  tmp,              \* FileStorage's temporary file: <<>> (none) or <<file>>
  torn,             \* the target file holds a part of a content only
  wr,               \* the call of FileStorage.write in progress, if any
  mem,              \* MemoryStorage.data
  held,             \* the snapshot objects a caller of a backend holds
  hooks,            \* Collection.hooks of each collection: per event, the
                    \* callbacks in the order addHook registered them
  pending           \* the calls of insert that have begun and not yet
                    \* returned or thrown, each where it is suspended

vars ==
  <<data, inTransaction, transactionData, disk, clock, last, faults, issued,
    indexedEmpty, txBase, returned, options, bak, tmp, torn, wr, mem, held,
    hooks, pending>>

\* what no operation of the Store or of a Collection, run from its call to
\* its return in one step, writes
ioVars == <<tmp, torn, wr, mem, held, hooks, pending>>

------------------------------------------------------------------------------
(* Bounds of the model *)

\* serials issued above the serial the backend starts with
MaxInserts == 2
\* the last instant of the clock
MaxClock == 1
\* backend calls that throw, in one run
MaxFaults == 1
\* callbacks registered, in one run
MaxHooks == 2
\* calls of insert in flight at once
MaxCalls == 2

------------------------------------------------------------------------------
(* Values *)

Colls == {"users", "posts"}
IdxFields == {"email"}
RelFields == {"ref"}

\* an absent field (JavaScript undefined) and null; no string holds code 0 or 1
Undef == <<0>>
Null == <<1>>
\* the strings "a" and "b"
ValA == <<97>>
ValB == <<98>>

\* the UTF-16 code units of a collection name
NameCodes(name) ==
  IF name = "users" THEN <<117, 115, 101, 114, 115>>
  ELSE <<112, 111, 115, 116, 115>>

\* the width String(serial) is padded to
PadWidth == 6

RECURSIVE Pow10(_)
Pow10(n) == IF n = 0 THEN 1 ELSE 10 * Pow10(n - 1)

\* the first serial whose decimal form is longer than PadWidth
PadLimit == Pow10(PadWidth)

\* a serial a long-lived store has reached: its next two serials straddle PadLimit
HighStart == PadLimit - 2

RECURSIVE Digits(_)
\* String(n) for n >= 0, as decimal digits
Digits(n) == IF n < 10 THEN <<n>> ELSE Digits(n \div 10) \o <<n % 10>>

\* String.prototype.padStart(width, '0') on a digit string
PadStart(ds, width) ==
  IF Len(ds) >= width THEN ds
  ELSE [i \in 1..(width - Len(ds)) |-> 0] \o ds

DigitCodes(ds) == [i \in 1..Len(ds) |-> 48 + ds[i]]

\* the number a string of decimal digits denotes
RECURSIVE DigitsValue(_)
DigitsValue(codes) ==
  IF codes = <<>> THEN 0
  ELSE 10 * DigitsValue(SubSeq(codes, 1, Len(codes) - 1)) + (codes[Len(codes)] - 48)

\* `${String(serial).padStart(6, '0')}_${this.name}`
MakeId(serial, name) ==
  DigitCodes(PadStart(Digits(serial), PadWidth)) \o <<95>> \o NameCodes(name)

\* JavaScript's s < t on strings: by code unit, a proper prefix first
LexLess(s, t) ==
  \E i \in 1..(Len(t)) :
     /\ i <= Len(s) + 1
     /\ \A j \in 1..(i - 1) : s[j] = t[j]
     /\ (i = Len(s) + 1 \/ s[i] < t[i])

------------------------------------------------------------------------------
(* Snapshots *)

NoRel == [ref |-> "none", field |-> "none"]

EmptySnapshot ==
  [serial    |-> 0,
   indices   |-> [c \in Colls |-> [f \in IdxFields |-> "none"]],
   relations |-> [c \in Colls |-> [f \in RelFields |-> NoRel]],
   keys      |-> {},
   data      |-> [c \in Colls |-> <<>>]]

\* FileStorage.read: the file's snapshot, or an empty one when there is no file
Read(file) == IF file = <<>> THEN EmptySnapshot ELSE file[1]

\* the fields a record can hold
DocFields == {"id", "created_at", "updated_at", "email", "ref"}

\* the text null
NullText == <<110, 117, 108, 108>>

\* a string's characters as JSON.stringify writes them between the quotes:
\* a quote (34) and a backslash (92) get a backslash before them
RECURSIVE Escape(_)
Escape(str) ==
  IF str = <<>> THEN <<>>
  ELSE (IF Head(str) \in {34, 92} THEN <<92, Head(str)>> ELSE <<Head(str)>>)
       \o Escape(Tail(str))

\* the characters JSON.parse reads between the quotes of a string
RECURSIVE Unescape(_)
Unescape(text) ==
  IF text = <<>> THEN <<>>
  ELSE IF Head(text) = 92 /\ Len(text) > 1
    THEN <<text[2]>> \o Unescape(Tail(Tail(text)))
  ELSE <<Head(text)>> \o Unescape(Tail(text))

\* JSON.stringify of a field value: null, or a string in quotes
StringifyValue(v) ==
  IF v = Null THEN NullText ELSE <<34>> \o Escape(v) \o <<34>>

\* JSON.parse of the text of a value
ParseValue(text) ==
  IF text = NullText THEN Null
  ELSE Unescape(SubSeq(text, 2, Len(text) - 1))

\* JSON.stringify of a record: the members whose value is not undefined,
\* each with the text of its value
StringifyDoc(doc) ==
  [f \in {g \in DOMAIN doc : doc[g] # Undef} |-> StringifyValue(doc[f])]

\* JSON.parse of the text of a record; a member the text lacks is absent
ParseDoc(members) ==
  [f \in DocFields |->
     IF f \in DOMAIN members THEN ParseValue(members[f]) ELSE Undef]

\* JSON.stringify of a snapshot: the serial in decimal digits, the index and
\* relation definitions, the collections that exist and their records
Stringify(snap) ==
  [serial    |-> DigitCodes(Digits(snap.serial)),
   indices   |-> snap.indices,
   relations |-> snap.relations,
   keys      |-> snap.keys,
   data      |-> [c \in Colls |->
                   [i \in 1..Len(snap.data[c]) |->
                      StringifyDoc(snap.data[c][i])]]]

\* JSON.parse of the text of a snapshot
Parse(text) ==
  [serial    |-> DigitsValue(text.serial),
   indices   |-> text.indices,
   relations |-> text.relations,
   keys      |-> text.keys,
   data      |-> [c \in Colls |->
                   [i \in 1..Len(text.data[c]) |-> ParseDoc(text.data[c][i])]]]

\* JSON.parse(JSON.stringify(x)) of a snapshot: a copy sharing nothing with
\* x. An absent field is the value Undef here.
JsonCopy(snap) == Parse(Stringify(snap))

\* the root every Collection operation reads and writes
ActiveOf(d, inTx, td) == IF inTx THEN td[1] ELSE d
Active == ActiveOf(data, inTransaction, transactionData)

\* _getCollectionData: creates the collection's array when it is missing
GetCollectionData(root, name) == [root EXCEPT !.keys = @ \cup {name}]

\* a serial handed out without advancing the counter
GetNextSerialStale(root) == root

\* _getNextSerial: the root with its counter advanced; the serial issued is
\* the new counter
GetNextSerial(root) == [root EXCEPT !.serial = @ + 1]

\* _getIndices
GetIndices(root, name) == root.indices[name]

------------------------------------------------------------------------------
(* Queries *)

\* a query is {} (k = "*") or {k: v}
AllQuery == [k |-> "*", v |-> Undef]
FieldQuery(k, v) == [k |-> k, v |-> v]

\* Collection._match for scalar query values
Match(doc, q) == q.k = "*" \/ doc[q.k] = q.v

\* the positions, in collection order, of the documents a query matches
RECURSIVE MatchPositions(_, _, _)
MatchPositions(list, q, i) ==
  IF i > Len(list) THEN <<>>
  ELSE (IF Match(list[i], q) THEN <<i>> ELSE <<>>) \o MatchPositions(list, q, i + 1)

\* Collection.find without options: the matching documents, in collection order
Find(root, name, q) ==
  LET list == root.data[name]
      pos == MatchPositions(list, q, 1)
  IN [i \in 1..Len(pos) |-> list[pos[i]]]

\* a findOne that gives the last matching document
FindLast(root, name, q) ==
  LET found == Find(root, name, q)
  IN IF found = <<>> THEN <<>> ELSE <<found[Len(found)]>>

\* Collection.findOne: <<>> (null) or <<the first matching document>>
FindOne(root, name, q) ==
  LET found == Find(root, name, q)
  IN IF found = <<>> THEN <<>> ELSE <<found[1]>>

------------------------------------------------------------------------------
(* Store: relation integrity, persistence *)

\* the payloads of insert and the patches of update: the caller's fields only
\* new Date().toISOString() at instant t: a string, one per instant
ToISOString(t) == DigitCodes(Digits(t))

\* { ...doc, id, created_at: now, updated_at: now }: the payload's fields,
\* the system fields written over them
NewDoc(doc, id, now) ==
  [f \in DOMAIN doc |->
     IF f = "id" THEN id
     ELSE IF f \in {"created_at", "updated_at"} THEN ToISOString(now)
     ELSE doc[f]]

\* the relation definitions read from the active root
CheckRelationsActive(root, live, name, doc) ==
  LET rel == root.relations[name]["ref"]
      val == doc.ref
  IN IF rel = NoRel \/ val = Undef \/ val = Null
       THEN [root |-> root, ok |-> TRUE]
       ELSE LET r1 == GetCollectionData(root, rel.ref)
                results == Find(r1, rel.ref, FieldQuery(rel.field, val))
            IN [root |-> r1, ok |-> Len(results) > 0]

\* the referenced records looked up in the live snapshot, transaction or not
CheckRelationsLive(root, live, name, doc) ==
  LET rel == live.relations[name]["ref"]
      val == doc.ref
  IN IF rel = NoRel \/ val = Undef \/ val = Null
       THEN [root |-> root, ok |-> TRUE]
       ELSE [root |-> root,
             ok |-> Len(Find(live, rel.ref, FieldQuery(rel.field, val))) > 0]

\* LitheDB._checkRelations(collectionName, doc). The relation definitions are
\* read from the live snapshot (this.data); the referenced records are looked
\* up through the referenced Collection, that is in the active root.
\* Yields the active root as the lookup leaves it and whether the check passed.
CheckRelations(root, live, name, doc) ==
  LET rel == live.relations[name]["ref"]
      val == doc.ref
  IN IF rel = NoRel \/ val = Undef \/ val = Null
       THEN [root |-> root, ok |-> TRUE]
       ELSE LET r1 == GetCollectionData(root, rel.ref)
                results == Find(r1, rel.ref, FieldQuery(rel.field, val))
            IN [root |-> r1, ok |-> Len(results) > 0]

\* the outcomes of the backend during one save: no failure, backup() throws
\* (copying the target file, so only when there is one), write() throws
Failures == {"none", "backup", "write"}

\* FileStorage.write: the serialized snapshot replaces the target file
Write(snap) == <<JsonCopy(snap)>>

\* FileStorage.backup: the target file copied to the backup when there is
\* a target file
Backup(file, b) == IF file # <<>> THEN file ELSE b

\* _save without its early return while a transaction is open
SaveInTransaction(inTx, live, file, fail) ==
  LET pre == IF options.backup THEN <<"backup">> ELSE <<>>
      kept == IF options.backup THEN Backup(file, bak) ELSE bak
  IN IF options.backup /\ fail = "backup" /\ file # <<>>
       THEN [disk |-> file, bak |-> bak, calls |-> <<"backup">>, err |-> TRUE]
     ELSE IF fail = "write"
       THEN [disk |-> file, bak |-> kept, calls |-> pre \o <<"write">>,
             err |-> TRUE]
     ELSE [disk |-> Write(live), bak |-> kept, calls |-> pre \o <<"write">>,
           err |-> FALSE]

\* _save writing before it backs up
SaveWriteFirst(inTx, live, file, fail) ==
  LET post == IF options.backup THEN <<"backup">> ELSE <<>>
  IN IF inTx
       THEN [disk |-> file, bak |-> bak, calls |-> <<>>, err |-> FALSE]
     ELSE IF fail = "write"
       THEN [disk |-> file, bak |-> bak, calls |-> <<"write">>, err |-> TRUE]
     ELSE IF options.backup /\ fail = "backup"
       THEN [disk |-> Write(live), bak |-> bak,
             calls |-> <<"write", "backup">>, err |-> TRUE]
     ELSE [disk |-> Write(live),
           bak |-> IF options.backup THEN Write(live) ELSE bak,
           calls |-> <<"write">> \o post, err |-> FALSE]

\* LitheDB._save, with storage.backup and storage.write. Yields the target
\* file and the backup afterwards, the backend calls made and whether one of
\* them threw. backup() can throw only while copying, so with a target file.
Save(inTx, live, file, fail) ==
  LET pre == IF options.backup THEN <<"backup">> ELSE <<>>
      kept == IF options.backup THEN Backup(file, bak) ELSE bak
  IN IF inTx
       THEN [disk |-> file, bak |-> bak, calls |-> <<>>, err |-> FALSE]
     ELSE IF options.backup /\ fail = "backup" /\ file # <<>>
       THEN [disk |-> file, bak |-> bak, calls |-> <<"backup">>, err |-> TRUE]
     ELSE IF fail = "write"
       THEN [disk |-> file, bak |-> kept, calls |-> pre \o <<"write">>,
             err |-> TRUE]
     ELSE [disk |-> Write(live), bak |-> kept, calls |-> pre \o <<"write">>,
           err |-> FALSE]

------------------------------------------------------------------------------
(* Hooks. A callback is its identity and what it does when called: return  *)
(* or throw. What the hooks of an operation did is a sequence of events:   *)
(* a callback was called for an event with an argument (start) and then    *)
(* returned (end) or threw (throw).                                       *)

HookEvents ==
  {"beforeInsert", "afterInsert", "beforeUpdate", "afterUpdate",
   "beforeRemove", "afterRemove", "beforeUpsert", "afterUpsert"}

\* this.hooks of a Collection just constructed
NoHooks == [c \in Colls |-> [e \in HookEvents |-> <<>>]]

\* one entry of the record of a run: a callback began, returned or threw
HookEvent(event, hook, phase, arg) ==
  [event |-> event, id |-> hook.id, phase |-> phase, arg |-> arg]

\* the run of no callback
NoRun == [log |-> <<>>, err |-> FALSE]

\* _runHooks going on to the next callback after one has thrown
RECURSIVE RunHooksOn(_, _, _)
RunHooksOn(list, event, arg) ==
  IF list = <<>> THEN NoRun
  ELSE LET h == Head(list)
           rest == RunHooksOn(Tail(list), event, arg)
       IN [log |-> <<HookEvent(event, h, "start", arg),
                     HookEvent(event, h, IF h.throws THEN "throw" ELSE "end",
                               arg)>> \o rest.log,
           err |-> FALSE]

\* Collection._runHooks(event, arg): for (const hook of this.hooks[event])
\* await hook(...args). Yields what happened and whether a callback threw.
RECURSIVE RunHooks(_, _, _)
RunHooks(list, event, arg) ==
  IF list = <<>> THEN NoRun
  ELSE LET h == Head(list)
       IN IF h.throws
            THEN [log |-> <<HookEvent(event, h, "start", arg),
                            HookEvent(event, h, "throw", arg)>>,
                  err |-> TRUE]
            ELSE LET rest == RunHooks(Tail(list), event, arg)
                 IN [log |-> <<HookEvent(event, h, "start", arg),
                               HookEvent(event, h, "end", arg)>> \o rest.log,
                     err |-> rest.err]

\* _runHooks(event, arg) once for each of n documents, until one throws
RECURSIVE RunHooksEach(_, _, _, _)
RunHooksEach(list, event, arg, n) ==
  IF n = 0 THEN NoRun
  ELSE LET first == RunHooks(list, event, arg)
       IN IF first.err THEN first
          ELSE LET rest == RunHooksEach(list, event, arg, n - 1)
               IN [log |-> first.log \o rest.log, err |-> rest.err]

------------------------------------------------------------------------------
(* Collection: the in-memory part of insert, update and remove *)

\* the uniqueness check looking up a field the payload does not define
InsertConflictAbsent(root, name, doc) ==
  /\ GetIndices(root, name)["email"] = "unique"
  /\ FindOne(root, name, FieldQuery("email", doc.email)) # <<>>

\* insert's uniqueness check: a unique index whose field the payload defines
\* is looked up with findOne
InsertConflict(root, name, doc) ==
  /\ GetIndices(root, name)["email"] = "unique"
  /\ doc.email # Undef
  /\ FindOne(root, name, FieldQuery("email", doc.email)) # <<>>

\* Collection.insert up to its call of _save: the active root afterwards, the
\* result ("ok", "unique", "relation") and the id given
InsertCore(root, live, name, doc, now) ==
  LET looked == GetIndices(root, name)["email"] = "unique" /\ doc.email # Undef
      r1 == IF looked THEN GetCollectionData(root, name) ELSE root
  IN IF InsertConflict(r1, name, doc)
       THEN [root |-> r1, res |-> "unique", id |-> Undef]
       ELSE LET chk == CheckRelations(r1, live, name, doc)
            IN IF ~chk.ok
                 THEN [root |-> chk.root, res |-> "relation", id |-> Undef]
                 ELSE LET r2 == GetNextSerial(chk.root)
                          id == MakeId(r2.serial, name)
                          r3 == GetCollectionData(r2, name)
                      IN [root |-> [r3 EXCEPT !.data[name] =
                                      Append(@, NewDoc(doc, id, now))],
                          res |-> "ok", id |-> id]

\* the patch assigned with its system fields left in
AssignUnfiltered(doc, patch, now) ==
  [f \in DOMAIN doc |->
     IF f = "updated_at" THEN ToISOString(now)
     ELSE IF patch[f] # Undef THEN patch[f]
     ELSE doc[f]]

\* const { id, created_at, updated_at, ...filteredUpdateData } = updateData
Filtered(patch) ==
  [f \in DOMAIN patch |->
     IF f \in {"id", "created_at", "updated_at"} THEN Undef ELSE patch[f]]

\* Object.assign(doc, filteredUpdateData, { updated_at: now }): id, created_at
\* and updated_at were stripped from the patch
Assign(doc, patch, now) ==
  [f \in DOMAIN doc |->
     IF f = "updated_at" THEN ToISOString(now)
     ELSE IF Filtered(patch)[f] # Undef THEN Filtered(patch)[f]
     ELSE doc[f]]

\* update without its uniqueness check
UpdateConflictNone(root, name, doc, patch) == FALSE

\* update's uniqueness check for one target
UpdateConflict(root, name, doc, patch) ==
  /\ GetIndices(root, name)["email"] = "unique"
  /\ patch.email # Undef
  /\ patch.email # doc.email
  /\ LET existing == FindOne(root, name, FieldQuery("email", patch.email))
     IN existing # <<>> /\ existing[1].id # doc.id

RECURSIVE UpdateLoop(_, _, _, _, _, _, _)
\* the loop of Collection.update over its targets (positions in the
\* collection), each target checked, assigned and relation-checked in turn
UpdateLoop(root, live, name, targets, patch, now, count) ==
  IF targets = <<>> THEN [root |-> root, res |-> "ok", count |-> count]
  ELSE LET i == Head(targets)
           doc == root.data[name][i]
       IN IF UpdateConflict(root, name, doc, patch)
            THEN [root |-> root, res |-> "unique", count |-> count]
            ELSE LET assigned == Assign(doc, patch, now)
                     r1 == [root EXCEPT !.data[name][i] = assigned]
                     chk == CheckRelations(r1, live, name, assigned)
                 IN IF ~chk.ok
                      THEN [root |-> chk.root, res |-> "relation", count |-> count]
                      ELSE UpdateLoop(chk.root, live, name, Tail(targets),
                                      patch, now, count + 1)

\* Collection.update up to its call of _save
UpdateCore(root, live, name, q, patch, now) ==
  LET r1 == GetCollectionData(root, name)
      targets == MatchPositions(r1.data[name], q, 1)
  IN UpdateLoop(r1, live, name, targets, patch, now, 0)

\* a filter that drops the first matching document only
RECURSIVE RejectFirst(_, _)
RejectFirst(list, q) ==
  IF list = <<>> THEN <<>>
  ELSE IF Match(Head(list), q) THEN Tail(list)
  ELSE <<Head(list)>> \o RejectFirst(Tail(list), q)

\* the documents of a list that a query does not match, in order
RECURSIVE Reject(_, _)
Reject(list, q) ==
  IF list = <<>> THEN <<>>
  ELSE (IF Match(Head(list), q) THEN <<>> ELSE <<Head(list)>>) \o Reject(Tail(list), q)

\* Collection.remove up to its call of _save
RemoveCore(root, name, q) ==
  LET r1 == GetCollectionData(root, name)
      newData == Reject(r1.data[name], q)
      count == Len(r1.data[name]) - Len(newData)
  IN [root |-> IF count > 0 THEN [r1 EXCEPT !.data[name] = newData] ELSE r1,
      count |-> count]

------------------------------------------------------------------------------
(* What a call gives back: record objects. A handle is an object in the     *)
(* caller's hands: its value, the stored record it is (at: <<>> when it is *)
(* an object of its own, <<[coll, pos]>> when it is the stored record of   *)
(* the active root itself), and the object a populated relation field      *)
(* holds (pop: <<>> when the field holds its raw value).                   *)

\* the stored record handed out as it is
CloneShared(doc, coll, pos) ==
  [val |-> doc, at |-> <<[coll |-> coll, pos |-> pos]>>, pop |-> <<>>]

\* Collection._clone(doc) of the record at a position of a collection:
\* JSON.parse(JSON.stringify(doc)), an object of its own
Clone(doc, coll, pos) ==
  [val |-> [f \in DOMAIN doc |-> doc[f]], at |-> <<>>, pop |-> <<>>]

\* the handles of the last record, or of all records, that a query matches
CloneMatchesLast(root, name, q, one) ==
  LET list == root.data[name]
      pos == MatchPositions(list, q, 1)
      n == Len(pos)
  IN IF one /\ n > 1 THEN <<Clone(list[pos[n]], name, pos[n])>>
     ELSE [i \in 1..n |-> Clone(list[pos[i]], name, pos[i])]

\* the handles of the first record, or of all records, that a query matches
CloneMatches(root, name, q, one) ==
  LET list == root.data[name]
      pos == MatchPositions(list, q, 1)
      n == IF one /\ Len(pos) > 1 THEN 1 ELSE Len(pos)
  IN [i \in 1..n |-> Clone(list[pos[i]], name, pos[i])]

\* the comparison function of find's sort gives a negative number for the
\* field values a and b: a < b when the order is 'asc', a > b otherwise.
\* < and > between strings compare code units; with an absent or null
\* operand against a string they are false.
Comes(a, b, order) ==
  /\ Undef \notin {a, b}
  /\ Null \notin {a, b}
  /\ IF order = "asc" THEN LexLess(a, b) ELSE LexLess(b, a)

\* Array.prototype.sort is stable: the position p is put behind the sorted
\* positions it does not come before
RECURSIVE InsertLast(_, _, _, _, _)
InsertLast(sorted, p, list, field, order) ==
  IF sorted = <<>> THEN <<p>>
  ELSE LET n == Len(sorted)
       IN IF Comes(list[p][field], list[sorted[n]][field], order)
            THEN InsertLast(SubSeq(sorted, 1, n - 1), p, list, field, order)
                   \o <<sorted[n]>>
            ELSE sorted \o <<p>>

\* results.sort((a, b) => ...) on the filtered array, as positions of list
RECURSIVE SortBy(_, _, _, _)
SortBy(pos, list, field, order) ==
  IF pos = <<>> THEN <<>>
  ELSE LET n == Len(pos)
       IN InsertLast(SortBy(SubSeq(pos, 1, n - 1), list, field, order),
                     pos[n], list, field, order)

\* what find(q, { sort }) returns: copies of the matching records, sorted
\* when sort, <<field, order>>, is given (<<>> when it is not)
FoundSorted(root, name, q, sort) ==
  LET list == root.data[name]
      pos == MatchPositions(list, q, 1)
      sorted == IF sort = <<>> THEN pos
                ELSE SortBy(pos, list, sort[1], sort[2])
  IN [i \in 1..Len(sorted) |-> Clone(list[sorted[i]], name, sorted[i])]

\* _populate leaving every relation field as it is
PopulateRaw(root, live, name, doc) ==
  [val |-> [f \in DOMAIN doc |-> doc[f]], at |-> <<>>, pop |-> <<>>]

\* LitheDB._populate(collectionName, doc): a copy of doc whose relation
\* field holds the record findOne gives for it in the referenced collection.
\* The relation definitions are read from the live snapshot.
Populate(root, live, name, doc) ==
  LET rel == live.relations[name]["ref"]
      val == doc.ref
      copy == [val |-> [f \in DOMAIN doc |-> doc[f]], at |-> <<>>, pop |-> <<>>]
  IN IF rel = NoRel \/ val = Undef \/ val = Null THEN copy
     ELSE [copy EXCEPT !.pop =
             CloneMatches(root, rel.ref, FieldQuery(rel.field, val), TRUE)]

\* the root after _populate of a document: findOne touched the referenced
\* collection
PopulateTouch(root, live, name, doc) ==
  LET rel == live.relations[name]["ref"]
  IN IF rel = NoRel \/ doc.ref = Undef \/ doc.ref = Null THEN root
     ELSE GetCollectionData(root, rel.ref)

RECURSIVE PopulateTouchAll(_, _, _, _)
PopulateTouchAll(root, live, name, docs) ==
  IF docs = <<>> THEN root
  ELSE PopulateTouchAll(PopulateTouch(root, live, name, Head(docs)), live,
                        name, Tail(docs))

\* what find (one = FALSE) or findOne (one = TRUE) returns: a sequence of
\* handles, empty for findOne's null
Found(root, live, name, q, one, populate) ==
  LET list == root.data[name]
      pos == MatchPositions(list, q, 1)
      n == IF one /\ Len(pos) > 1 THEN 1 ELSE Len(pos)
  IN IF populate
       THEN [i \in 1..n |-> Populate(root, live, name, list[pos[i]])]
       ELSE CloneMatches(root, name, q, one)

------------------------------------------------------------------------------
(* _match on a query value that is an object. A value is a number (t =      *)
(* "num", e the number), an array (t = "arr", e its elements in order), an  *)
(* object (t = "obj", e its properties [k, v] in the order they were        *)
(* created in, which JSON.parse and JSON.stringify keep), or absent.        *)

Absent == [t |-> "undef", e |-> <<>>]
Num(n) == [t |-> "num", e |-> n]
Arr(elems) == [t |-> "arr", e |-> elems]
Obj(props) == [t |-> "obj", e |-> props]

\* the texts of a list with commas between them
RECURSIVE Joined(_)
Joined(texts) ==
  IF texts = <<>> THEN <<>>
  ELSE IF Len(texts) = 1 THEN texts[1]
  ELSE texts[1] \o <<44>> \o Joined(Tail(texts))

\* JSON.stringify(value): <<the text>>, or <<>> for undefined
RECURSIVE JsonText(_)
JsonText(value) ==
  IF value.t = "undef" THEN <<>>
  ELSE IF value.t = "num" THEN <<DigitCodes(Digits(value.e))>>
  ELSE IF value.t = "arr"
    THEN <<(<<91>> \o Joined([i \in 1..Len(value.e) |->
                                JsonText(value.e[i])[1]]) \o <<93>>)>>
  ELSE <<(<<123>> \o Joined([i \in 1..Len(value.e) |->
                               <<34>> \o value.e[i].k \o <<34, 58>>
                                 \o JsonText(value.e[i].v)[1]])
                  \o <<125>>)>>

\* _match for a key whose query value is a non-array object:
\* JSON.stringify(doc[key]) === JSON.stringify(value)
MatchObject(stored, value) == JsonText(stored) = JsonText(value)

------------------------------------------------------------------------------
(* Inputs *)

\* a payload or a patch: the fields the caller gives, the others absent
NoDoc ==
  [id |-> Undef, created_at |-> Undef, updated_at |-> Undef,
   email |-> Undef, ref |-> Undef]

EmailDoc(v) == [NoDoc EXCEPT !.email = v]
RefDoc(w) == [NoDoc EXCEPT !.ref = w]

\* an instant the clock never reads, as a caller could write it in a payload
Forged == ToISOString(MaxClock + 1)

\* a payload or patch that also gives the three system fields
ForgedDoc(v) ==
  [id |-> ValA, created_at |-> Forged, updated_at |-> Forged,
   email |-> v, ref |-> Undef]

\* the instants a reading of the clock can return: the last reading or later
Now == {t \in {clock, clock + 1} : t <= MaxClock}

\* serials stay within MaxInserts of the serial the backend started with
CanIssue(root) ==
  IF root.serial >= HighStart THEN root.serial < HighStart + MaxInserts
  ELSE root.serial < MaxInserts

Outcome(op, coll, q, doc, res, calls, count) ==
  [op |-> op, coll |-> coll, q |-> q, doc |-> doc, res |-> res,
   calls |-> calls, count |-> count, hooks |-> <<>>, sort |-> <<>>]

\* every write going to the live snapshot, transaction or not
SetLive(root) == data' = root /\ transactionData' = transactionData

\* the active root replaced by root
SetActive(root) ==
  IF inTransaction
    THEN data' = data /\ transactionData' = <<root>>
    ELSE data' = root /\ transactionData' = transactionData

NoSave == [disk |-> disk, bak |-> bak, calls |-> <<>>, err |-> FALSE]

\* the live snapshot as it was before the operation changed it
LiveBefore(root) == data

\* this.data when _save is called, after the operation changed the active
\* root to root
LiveAfter(root) == IF inTransaction THEN data ELSE root

\* a save that threw is one more fault, within the bound
Faulted(sv) ==
  IF sv.err THEN faults < MaxFaults /\ faults' = faults + 1
            ELSE faults' = faults

------------------------------------------------------------------------------
(* Initial state: a Store made by LitheDB.create, that is constructed and   *)
(* loaded, on a backend with no file yet or with the file of an earlier    *)
(* session whose records were all removed.                                 *)

InitDisks == {<<>>, <<[EmptySnapshot EXCEPT !.serial = HighStart]>>}

\* this.options = { backup: true, ...options }
DefaultOptions == [backup |-> TRUE]

\* no call of FileStorage.write in progress
NoWrite == [pc |-> "idle", arg |-> <<>>, i |-> 0, waited |-> <<>>,
            res |-> "none", old |-> <<>>, tries |-> 0, errs |-> <<>>]

\* a caller that holds no snapshot object: none passed to write (sent), none
\* returned by read (got). An object is its value (val), the backend it went
\* to or came from (on), whether it is the very object MemoryStorage.data is
\* (same) and, to state properties, its value when it was passed (was).
NoHeld == [sent |-> <<>>, got |-> <<>>]

\* no call of insert in flight: where a call is suspended (pc), its
\* collection (coll) and payload (doc), whether its uniqueness check looked a
\* record up (looked) and found one (found), whether its relation check
\* passed (ok), whether its _save goes to the backend (saving), the record
\* it appended (made) and what its hooks did (log)
NoCall ==
  [pc |-> "idle", coll |-> "none", doc |-> NoDoc, looked |-> FALSE,
   found |-> FALSE, ok |-> TRUE, saving |-> FALSE, made |-> NoDoc,
   log |-> <<>>]

\* the backends before any call: no temporary file, a MemoryStorage made
\* without initial data, no snapshot handed over yet
InitIO ==
  /\ tmp = <<>>
  /\ torn = FALSE
  /\ wr = NoWrite
  /\ mem = EmptySnapshot
  /\ held = NoHeld
  /\ hooks = NoHooks
  /\ pending = [c \in 1..MaxCalls |-> NoCall]

\* the file an earlier session left with one record of users in it, at a
\* serial whose next two straddle PadLimit
SeededDisk ==
  <<[EmptySnapshot EXCEPT
       !.serial = HighStart,
       !.keys = {"users"},
       !.data["users"] =
          <<[id |-> MakeId(HighStart, "users"),
             created_at |-> ToISOString(0), updated_at |-> ToISOString(0),
             email |-> ValB, ref |-> Undef]>>]>>

\* LitheDB.create(target, opts) on one of the files
InitStoreOn(opts, files) ==
  /\ disk \in files
  /\ data = Read(disk)
  /\ inTransaction = FALSE
  /\ transactionData = <<>>
  /\ clock = 0
  /\ txBase = <<>>
  /\ issued = {}
  /\ faults = 0
  /\ indexedEmpty = {}
  /\ last = Outcome("create", "none", AllQuery, NoDoc, "ok", <<"read">>, 0)
  /\ returned = <<>>
  /\ options = opts
  /\ bak = <<>>
  /\ InitIO

\* LitheDB.create(target, opts)
InitStore(opts) == InitStoreOn(opts, InitDisks)

Init == InitStore(DefaultOptions)

\* a Store created on the file of an earlier session
InitSeeded == InitStoreOn(DefaultOptions, {SeededDisk})

------------------------------------------------------------------------------
(* Operations *)

\* a read that throws whenever readFile does, ENOENT too
ReadFileStrict(file, fail) ==
  IF fail = "read" \/ file = <<>> THEN [err |-> TRUE, snap |-> EmptySnapshot]
  ELSE [err |-> FALSE, snap |-> Read(file)]

\* FileStorage.read with its outcomes: readFile fails with an error other
\* than ENOENT (fail = "read") and read throws it; or there is no file
\* (ENOENT) and read returns an empty snapshot; or read returns what the
\* file's text parses to
ReadFile(file, fail) ==
  IF fail = "read" THEN [err |-> TRUE, snap |-> EmptySnapshot]
  ELSE [err |-> FALSE, snap |-> Read(file)]

\* LitheDB.load: this.data = await this.storage.read()
Load(fail) ==
  /\ fail = "read" => faults < MaxFaults
  /\ faults' = IF fail = "read" THEN faults + 1 ELSE faults
  /\ LET r == ReadFile(disk, fail)
     IN IF r.err
          THEN /\ UNCHANGED data
               /\ last' = Outcome("load", "none", AllQuery, NoDoc, "backend",
                                  <<"read">>, 0)
          ELSE /\ data' = r.snap
               /\ last' = Outcome("load", "none", AllQuery, NoDoc, "ok",
                                  <<"read">>, 0)
  /\ returned' = <<>>
  /\ UNCHANGED <<inTransaction, transactionData, disk, clock, issued,
               indexedEmpty, txBase, options, bak>>
  /\ UNCHANGED ioVars

\* a beginTransaction that goes on with the sandbox of a transaction that is
\* already open
BeginTransactionNested(fail) ==
  /\ IF fail = "read"
       THEN /\ faults < MaxFaults
            /\ faults' = faults + 1
            /\ UNCHANGED <<data, inTransaction, transactionData, txBase>>
            /\ last' = Outcome("begin", "none", AllQuery, NoDoc, "backend", <<"read">>, 0)
       ELSE /\ data' = Read(disk)
            /\ inTransaction' = TRUE
            /\ transactionData' = IF inTransaction THEN transactionData
                                  ELSE <<JsonCopy(data')>>
            /\ txBase' = <<data>>
            /\ UNCHANGED faults
            /\ last' = Outcome("begin", "none", AllQuery, NoDoc, "ok", <<"read">>, 0)
  /\ returned' = <<>>
  /\ UNCHANGED <<disk, clock, issued, indexedEmpty, options, bak>>
  /\ UNCHANGED ioVars

\* LitheDB.beginTransaction
BeginTransaction(fail) ==
  /\ IF fail = "read"
       THEN /\ faults < MaxFaults
            /\ faults' = faults + 1
            /\ UNCHANGED <<data, inTransaction, transactionData, txBase>>
            /\ last' = Outcome("begin", "none", AllQuery, NoDoc, "backend", <<"read">>, 0)
       ELSE /\ data' = Read(disk)
            /\ inTransaction' = TRUE
            /\ transactionData' = <<JsonCopy(data')>>
            /\ txBase' = <<data>>
            /\ UNCHANGED faults
            /\ last' = Outcome("begin", "none", AllQuery, NoDoc, "ok", <<"read">>, 0)
  /\ returned' = <<>>
  /\ UNCHANGED <<disk, clock, issued, indexedEmpty, options, bak>>
  /\ UNCHANGED ioVars

\* commit saving before it has promoted the sandbox and closed the transaction
CommitSaveFirst(fail) ==
  IF ~inTransaction
    THEN /\ last' = Outcome("commit", "none", AllQuery, NoDoc, "noop", <<>>, 0)
         /\ returned' = <<>>
         /\ UNCHANGED <<data, inTransaction, transactionData, disk, clock,
                        faults, issued, indexedEmpty, txBase, options, bak>>
         /\ UNCHANGED ioVars
    ELSE LET sv == Save(TRUE, transactionData[1], disk, fail)
         IN /\ Faulted(sv)
            /\ data' = transactionData[1]
            /\ inTransaction' = FALSE
            /\ transactionData' = <<>>
            /\ disk' = sv.disk
            /\ txBase' = <<>>
            /\ last' = Outcome("commit", "none", AllQuery, NoDoc,
                               IF sv.err THEN "backend" ELSE "ok", sv.calls, 0)
            /\ bak' = sv.bak
            /\ returned' = <<>>
            /\ UNCHANGED <<clock, issued, indexedEmpty, options>>
            /\ UNCHANGED ioVars

\* commit keeping the transaction open and the live snapshot in place when
\* its save throws
CommitGuarded(fail) ==
  IF ~inTransaction
    THEN /\ last' = Outcome("commit", "none", AllQuery, NoDoc, "noop", <<>>, 0)
         /\ returned' = <<>>
         /\ UNCHANGED <<data, inTransaction, transactionData, disk, clock,
                        faults, issued, indexedEmpty, txBase, options, bak>>
         /\ UNCHANGED ioVars
    ELSE LET sv == Save(FALSE, transactionData[1], disk, fail)
         IN /\ Faulted(sv)
            /\ data' = IF sv.err THEN data ELSE transactionData[1]
            /\ inTransaction' = sv.err
            /\ transactionData' = IF sv.err THEN transactionData ELSE <<>>
            /\ disk' = sv.disk
            /\ txBase' = IF sv.err THEN txBase ELSE <<>>
            /\ last' = Outcome("commit", "none", AllQuery, NoDoc,
                               IF sv.err THEN "backend" ELSE "ok", sv.calls, 0)
            /\ bak' = sv.bak
            /\ returned' = <<>>
            /\ UNCHANGED <<clock, issued, indexedEmpty, options>>
            /\ UNCHANGED ioVars

\* LitheDB.commit
Commit(fail) ==
  IF ~inTransaction
    THEN /\ last' = Outcome("commit", "none", AllQuery, NoDoc, "noop", <<>>, 0)
         /\ returned' = <<>>
         /\ UNCHANGED <<data, inTransaction, transactionData, disk, clock,
                        faults, issued, indexedEmpty, txBase, options, bak>>
         /\ UNCHANGED ioVars
    ELSE LET sv == Save(FALSE, transactionData[1], disk, fail)
         IN /\ Faulted(sv)
            /\ data' = transactionData[1]
            /\ inTransaction' = FALSE
            /\ transactionData' = <<>>
            /\ disk' = sv.disk
            /\ txBase' = <<>>
            /\ last' = Outcome("commit", "none", AllQuery, NoDoc,
                               IF sv.err THEN "backend" ELSE "ok", sv.calls, 0)
            /\ bak' = sv.bak
            /\ returned' = <<>>
            /\ UNCHANGED <<clock, issued, indexedEmpty, options>>
            /\ UNCHANGED ioVars

\* LitheDB.rollback
Rollback ==
  /\ inTransaction' = FALSE
  /\ transactionData' = <<>>
  /\ txBase' = <<>>
  /\ last' = Outcome("rollback", "none", AllQuery, NoDoc, "ok", <<>>, 0)
  /\ returned' = <<>>
  /\ UNCHANGED <<data, disk, clock, faults, issued, indexedEmpty, options, bak>>
  /\ UNCHANGED ioVars

\* createIndex putting a new object in place of root.metadata.indices
CreateIndexAlone(root, name, unique) ==
  [root EXCEPT !.indices =
     [c \in Colls |-> [f \in IdxFields |->
        IF c = name THEN (IF unique THEN "unique" ELSE "plain") ELSE "none"]]]

\* root.metadata.indices[collection][field] = options, for the field email
CreateIndexOn(root, name, unique) ==
  [root EXCEPT !.indices[name]["email"] = IF unique THEN "unique" ELSE "plain"]

\* root.metadata.relations[collection][field] = { ref, field }, for the
\* field ref
DefineRelationOn(root, name, ref, field) ==
  [root EXCEPT !.relations[name]["ref"] = [ref |-> ref, field |-> field]]

\* LitheDB.createIndex(name, "email", options)
CreateIndex(name, unique) ==
  /\ SetActive(CreateIndexOn(Active, name, unique))
  /\ indexedEmpty' = IF unique /\ Active.data[name] = <<>>
                       THEN indexedEmpty \cup {name}
                       ELSE IF unique THEN indexedEmpty
                       ELSE indexedEmpty \ {name}
  /\ last' = Outcome("createIndex", name, AllQuery, NoDoc, "ok", <<>>, 0)
  /\ returned' = <<>>
  /\ UNCHANGED <<inTransaction, disk, clock, faults, issued, txBase, options, bak>>
  /\ UNCHANGED ioVars

\* LitheDB.defineRelation(name, "ref", {ref, field})
DefineRelation(name, ref, field) ==
  /\ SetActive(DefineRelationOn(Active, name, ref, field))
  /\ last' = Outcome("defineRelation", name, AllQuery, NoDoc, "ok", <<>>, 0)
  /\ returned' = <<>>
  /\ UNCHANGED <<inTransaction, disk, clock, faults, issued, indexedEmpty,
               txBase, options, bak>>
  /\ UNCHANGED ioVars

\* the name of a call of find or findOne, with its populate option
FindOp(one, populate) ==
  IF populate THEN (IF one THEN "findOnePopulate" ELSE "findPopulate")
  ELSE (IF one THEN "findOne" ELSE "find")

\* Collection.find(q, { populate }) and, with one, Collection.findOne
FindCall(name, q, one, populate) ==
  /\ LET r1 == GetCollectionData(Active, name)
         got == Found(r1, data, name, q, one, populate)
     IN /\ SetActive(IF populate
                       THEN PopulateTouchAll(r1, data, name,
                              [i \in 1..Len(got) |-> got[i].val])
                       ELSE r1)
        /\ returned' = got
        /\ last' = Outcome(FindOp(one, populate), name, q, NoDoc,
                           "ok", <<>>, Len(got))
  /\ UNCHANGED <<inTransaction, disk, clock, faults, issued, indexedEmpty,
               txBase, options, bak>>
  /\ UNCHANGED ioVars

\* Collection.find({})
FindAct(name) == FindCall(name, AllQuery, FALSE, FALSE)

\* Collection.find(q, { sort })
FindSorted(name, q, sort) ==
  /\ LET r1 == GetCollectionData(Active, name)
         got == FoundSorted(r1, name, q, sort)
     IN /\ SetActive(r1)
        /\ returned' = got
        /\ last' = [Outcome("findSorted", name, q, NoDoc, "ok", <<>>, Len(got))
                      EXCEPT !.sort = sort]
  /\ UNCHANGED <<inTransaction, disk, clock, faults, issued, indexedEmpty,
                 txBase, options, bak>>
  /\ UNCHANGED ioVars

\* Collection._match(doc, { email: value }) for a value that is an object,
\* on a record whose email is stored
MatchCall(stored, value) ==
  /\ last' = Outcome("match", "users", [k |-> "email", v |-> value],
                     [NoDoc EXCEPT !.email = stored], "ok", <<>>,
                     IF MatchObject(stored, value) THEN 1 ELSE 0)
  /\ returned' = <<>>
  /\ UNCHANGED <<data, inTransaction, transactionData, disk, clock, faults,
                 issued, indexedEmpty, txBase, options, bak>>
  /\ UNCHANGED ioVars

\* the caller writes v into the email of a record object it was given: the
\* i-th object of the last result or, deep, the record its relation field was
\* populated with. The write lands in the object, and so in the active root
\* when the object is a stored record.
MutateReturned(i, deep, v) ==
  /\ i \in 1..Len(returned)
  /\ deep => returned[i].pop # <<>>
  /\ LET h == IF deep THEN returned[i].pop[1] ELSE returned[i]
         h2 == [h EXCEPT !.val.email = v]
     IN /\ returned' = IF deep THEN [returned EXCEPT ![i].pop = <<h2>>]
                                ELSE [returned EXCEPT ![i] = h2]
        /\ IF h.at = <<>>
             THEN UNCHANGED <<data, transactionData>>
             ELSE SetActive([Active EXCEPT
                    !.data[h.at[1].coll][h.at[1].pos].email = v])
  /\ last' = Outcome("mutate", "none", AllQuery, EmailDoc(v), "ok", <<>>, 0)
  /\ UNCHANGED <<inTransaction, disk, clock, faults, issued, indexedEmpty,
               txBase, options, bak>>
  /\ UNCHANGED ioVars

\* an operation that a before-hook stopped at its first line: it throws the
\* hook's error
HookAbort(op, name, q, doc, log) ==
  /\ last' = [Outcome(op, name, q, doc, "hook", <<>>, 0) EXCEPT !.hooks = log]
  /\ returned' = <<>>
  /\ UNCHANGED <<data, transactionData, disk, clock, faults, issued, bak>>

\* the callbacks registered: one that returns and one that throws
Callbacks == {[id |-> 1, throws |-> FALSE], [id |-> 2, throws |-> TRUE]}

\* the callbacks registered on all events of all collections
RECURSIVE Registered(_)
Registered(pairs) ==
  IF pairs = {} THEN 0
  ELSE LET p == CHOOSE x \in pairs : TRUE
       IN Len(hooks[p[1]][p[2]]) + Registered(pairs \ {p})

\* Collection.addHook(event, callback)
AddHook(name, event, callback) ==
  /\ Registered(Colls \X HookEvents) < MaxHooks
  /\ hooks' = IF event \in HookEvents
                THEN [hooks EXCEPT ![name][event] = Append(@, callback)]
                ELSE hooks
  /\ last' = Outcome("addHook", name, AllQuery, NoDoc, "ok", <<>>, 0)
  /\ returned' = <<>>
  /\ UNCHANGED <<data, inTransaction, transactionData, disk, clock, faults,
                 issued, indexedEmpty, txBase, options, bak, tmp, torn, wr,
                 mem, held, pending>>

\* insert running its afterInsert hooks before the record is appended: a hook
\* that throws leaves the root and the backend as they were
InsertHooksFirst(name, doc, now, fail) ==
  /\ CanIssue(Active)
  /\ \E core \in {InsertCore(Active, data, name, doc, now)} :
     LET pre == RunHooks(hooks[name]["beforeInsert"], "beforeInsert", FALSE)
         post == IF core.res = "ok"
                   THEN RunHooks(hooks[name]["afterInsert"], "afterInsert",
                                 FALSE)
                   ELSE NoRun
         done == core.res = "ok" /\ ~post.err
     IN \E sv \in {IF done
                     THEN Save(inTransaction, LiveAfter(core.root), disk, fail)
                     ELSE NoSave} :
        IF pre.err THEN HookAbort("insert", name, AllQuery, doc, pre.log)
        ELSE
        /\ Faulted(sv)
        /\ SetActive(IF post.err THEN Active ELSE core.root)
        /\ disk' = sv.disk
        /\ clock' = IF done THEN now ELSE clock
        /\ last' = [Outcome("insert", name, AllQuery, doc,
                            IF post.err THEN "hook"
                            ELSE IF sv.err THEN "backend" ELSE core.res,
                            sv.calls, IF done THEN 1 ELSE 0)
                      EXCEPT !.hooks = pre.log \o post.log]
        /\ issued' = IF done THEN issued \cup {core.root.serial} ELSE issued
        /\ bak' = sv.bak
        /\ returned' = IF done /\ ~sv.err
                          THEN LET n == Len(core.root.data[name])
                               IN <<Clone(core.root.data[name][n], name, n)>>
                          ELSE <<>>
  /\ UNCHANGED <<inTransaction, indexedEmpty, txBase, options>>
  /\ UNCHANGED ioVars

\* Collection.insert(doc)
Insert(name, doc, now, fail) ==
  /\ CanIssue(Active)
  /\ \E core \in {InsertCore(Active, data, name, doc, now)} :
     \E sv \in {IF core.res = "ok"
                  THEN Save(inTransaction, LiveAfter(core.root), disk, fail)
                  ELSE NoSave} :
     LET pre == RunHooks(hooks[name]["beforeInsert"], "beforeInsert", FALSE)
         post == IF core.res = "ok" /\ ~sv.err
                   THEN RunHooks(hooks[name]["afterInsert"], "afterInsert",
                                 FALSE)
                   ELSE NoRun
     IN IF pre.err THEN HookAbort("insert", name, AllQuery, doc, pre.log)
        ELSE
        /\ Faulted(sv)
        /\ SetActive(core.root)
        /\ disk' = sv.disk
        /\ clock' = IF core.res = "ok" THEN now ELSE clock
        /\ last' = [Outcome("insert", name, AllQuery, doc,
                            IF sv.err THEN "backend"
                            ELSE IF post.err THEN "hook" ELSE core.res,
                            sv.calls, IF core.res = "ok" THEN 1 ELSE 0)
                      EXCEPT !.hooks = pre.log \o post.log]
        /\ issued' = IF core.res = "ok" THEN issued \cup {core.root.serial}
                                        ELSE issued
        /\ bak' = sv.bak
        /\ returned' = IF core.res = "ok" /\ ~sv.err /\ ~post.err
                          THEN LET n == Len(core.root.data[name])
                               IN <<Clone(core.root.data[name][n], name, n)>>
                          ELSE <<>>
  /\ UNCHANGED <<inTransaction, indexedEmpty, txBase, options>>
  /\ UNCHANGED ioVars

\* Collection.update(q, patch)
Update(name, q, patch, now, fail) ==
  /\ \E core \in {UpdateCore(Active, data, name, q, patch, now)} :
     \E sv \in {IF core.res = "ok" /\ core.count > 0
                  THEN Save(inTransaction, LiveAfter(core.root), disk, fail)
                  ELSE NoSave} :
     LET pre == RunHooks(hooks[name]["beforeUpdate"], "beforeUpdate", FALSE)
         post == IF core.res = "ok" /\ ~sv.err
                   THEN RunHooksEach(hooks[name]["afterUpdate"], "afterUpdate",
                                     FALSE, core.count)
                   ELSE NoRun
     IN IF pre.err THEN HookAbort("update", name, q, patch, pre.log)
        ELSE
        /\ Faulted(sv)
        /\ SetActive(core.root)
        /\ disk' = sv.disk
        /\ clock' = now
        /\ last' = [Outcome("update", name, q, patch,
                            IF sv.err THEN "backend"
                            ELSE IF post.err THEN "hook" ELSE core.res,
                            sv.calls, core.count)
                      EXCEPT !.hooks = pre.log \o post.log]
        /\ bak' = sv.bak
        /\ returned' = <<>>
  /\ UNCHANGED <<inTransaction, issued, indexedEmpty, txBase, options>>
  /\ UNCHANGED ioVars

\* Collection.remove(q)
Remove(name, q, fail) ==
  /\ \E core \in {RemoveCore(Active, name, q)} :
     \E sv \in {IF core.count > 0
                  THEN Save(inTransaction, LiveAfter(core.root), disk, fail)
                  ELSE NoSave} :
     LET pre == RunHooks(hooks[name]["beforeRemove"], "beforeRemove", FALSE)
         post == IF ~sv.err
                   THEN RunHooks(hooks[name]["afterRemove"], "afterRemove",
                                 FALSE)
                   ELSE NoRun
     IN IF pre.err THEN HookAbort("remove", name, q, NoDoc, pre.log)
        ELSE
        /\ Faulted(sv)
        /\ SetActive(core.root)
        /\ disk' = sv.disk
        /\ last' = [Outcome("remove", name, q, NoDoc,
                            IF sv.err THEN "backend"
                            ELSE IF post.err THEN "hook" ELSE "ok",
                            sv.calls, core.count)
                      EXCEPT !.hooks = pre.log \o post.log]
        /\ bak' = sv.bak
        /\ returned' = <<>>
  /\ UNCHANGED <<inTransaction, clock, issued, indexedEmpty, txBase, options>>
  /\ UNCHANGED ioVars

\* Collection.upsert(q, doc): update({id: existing.id}, doc) when findOne(q)
\* finds a record, insert(doc) otherwise
Upsert(name, q, doc, now, fail) ==
  /\ \E r0 \in {GetCollectionData(Active, name)} :
     \E existing \in {FindOne(r0, name, q)} :
     \E core \in {IF existing = <<>>
                    THEN InsertCore(r0, data, name, doc, now)
                    ELSE UpdateCore(r0, data, name,
                                    FieldQuery("id", existing[1].id), doc,
                                    now)} :
     \E sv \in {IF core.res = "ok"
                  THEN Save(inTransaction, LiveAfter(core.root), disk, fail)
                  ELSE NoSave} :
     LET preU == RunHooks(hooks[name]["beforeUpsert"], "beforeUpsert", FALSE)
         inserts == existing = <<>>
         op == IF inserts THEN "upsertInsert" ELSE "upsertUpdate"
         pre == IF inserts
                  THEN RunHooks(hooks[name]["beforeInsert"], "beforeInsert",
                                FALSE)
                  ELSE RunHooks(hooks[name]["beforeUpdate"], "beforeUpdate",
                                FALSE)
         mutated == core.res = "ok"
         post == IF ~mutated \/ sv.err THEN NoRun
                 ELSE IF inserts
                   THEN RunHooks(hooks[name]["afterInsert"], "afterInsert",
                                 FALSE)
                 ELSE RunHooks(hooks[name]["afterUpdate"], "afterUpdate",
                               FALSE)
         postU == IF ~mutated \/ sv.err \/ post.err THEN NoRun
                  ELSE RunHooks(hooks[name]["afterUpsert"], "afterUpsert",
                                inserts)
     IN IF preU.err THEN HookAbort("upsert", name, q, doc, preU.log)
        ELSE IF pre.err
          THEN /\ last' = [Outcome(op, name, q, doc, "hook", <<>>, 0)
                            EXCEPT !.hooks = preU.log \o pre.log]
               /\ returned' = <<>>
               /\ SetActive(r0)
               /\ UNCHANGED <<disk, clock, faults, issued, bak>>
        ELSE
        /\ inserts => CanIssue(Active)
        /\ Faulted(sv)
        /\ SetActive(core.root)
        /\ disk' = sv.disk
        /\ clock' = IF inserts /\ core.res # "ok" THEN clock ELSE now
        /\ last' = [Outcome(op, name, q, doc,
                            IF sv.err THEN "backend"
                            ELSE IF post.err \/ postU.err THEN "hook"
                            ELSE core.res,
                            sv.calls, IF mutated THEN 1 ELSE 0)
                      EXCEPT !.hooks = preU.log \o pre.log \o post.log
                                       \o postU.log]
        /\ issued' = IF inserts /\ mutated THEN issued \cup {core.root.serial}
                                            ELSE issued
        /\ bak' = sv.bak
        /\ returned' =
             IF ~mutated \/ sv.err \/ post.err \/ postU.err THEN <<>>
             ELSE IF inserts
               THEN LET n == Len(core.root.data[name])
                    IN <<Clone(core.root.data[name][n], name, n)>>
             ELSE CloneMatches(core.root, name,
                               FieldQuery("id", existing[1].id), TRUE)
  /\ UNCHANGED <<inTransaction, indexedEmpty, txBase, options>>
  /\ UNCHANGED ioVars

------------------------------------------------------------------------------
(* Collection.insert, turn by turn. An async function runs until it awaits  *)
(* and goes on in a later turn of the event loop; between two turns of one  *)
(* call, turns of other calls run. pending[c] is call c of insert.          *)

Calls == 1..MaxCalls

\* what no turn of insert writes
callRest ==
  <<inTransaction, indexedEmpty, txBase, options, tmp, torn, wr, mem, held,
    hooks>>

\* insert(doc) is called: it runs the beforeInsert hooks and awaits them
InsertCall(c, name, doc) ==
  /\ pending[c].pc = "idle"
  /\ LET pre == RunHooks(hooks[name]["beforeInsert"], "beforeInsert", FALSE)
     IN IF pre.err
          THEN /\ HookAbort("insert", name, AllQuery, doc, pre.log)
               /\ pending' = pending
          ELSE /\ pending' = [pending EXCEPT ![c] =
                                [NoCall EXCEPT !.pc = "hooks", !.coll = name,
                                               !.doc = doc, !.log = pre.log]]
               /\ UNCHANGED <<data, transactionData, disk, clock, faults,
                              issued, bak, last, returned>>
  /\ UNCHANGED callRest

\* await this.db._checkRelations(this.name, doc): the lookup in the
\* referenced collection runs in the turn of the call, its outcome is acted
\* upon in a later one
AwaitRelations(c, root) ==
  LET p == pending[c]
      chk == CheckRelations(root, data, p.coll, p.doc)
  IN /\ SetActive(chk.root)
     /\ pending' = [pending EXCEPT ![c].pc = "relations", ![c].ok = chk.ok]

\* insert goes on after the hooks: with a unique index on a field the payload
\* defines it calls findOne, which looks the record up in this turn, and
\* awaits it; with none it goes straight to _checkRelations
InsertCheck(c) ==
  /\ pending[c].pc = "hooks"
  /\ LET p == pending[c]
         looked == /\ GetIndices(Active, p.coll)["email"] = "unique"
                   /\ p.doc.email # Undef
         r1 == GetCollectionData(Active, p.coll)
     IN IF looked
          THEN /\ SetActive(r1)
               /\ pending' = [pending EXCEPT
                                ![c].pc = "findOne", ![c].looked = TRUE,
                                ![c].found = InsertConflict(r1, p.coll, p.doc)]
          ELSE AwaitRelations(c, Active)
  /\ UNCHANGED <<disk, clock, faults, issued, bak, last, returned>>
  /\ UNCHANGED callRest

\* insert goes on after findOne: it throws when a record was found, and
\* calls _checkRelations otherwise
InsertFound(c) ==
  /\ pending[c].pc = "findOne"
  /\ LET p == pending[c]
     IN IF p.found
          THEN /\ pending' = [pending EXCEPT ![c] = NoCall]
               /\ last' = [Outcome("insert", p.coll, AllQuery, p.doc, "unique",
                                   <<>>, 0) EXCEPT !.hooks = p.log]
               /\ returned' = <<>>
               /\ UNCHANGED <<data, transactionData>>
          ELSE /\ AwaitRelations(c, Active)
               /\ UNCHANGED <<last, returned>>
  /\ UNCHANGED <<disk, clock, faults, issued, bak>>
  /\ UNCHANGED callRest

\* insert goes on after _checkRelations: it throws when the check failed;
\* otherwise it takes the next serial, makes the id and the record, pushes
\* the record and calls _save, all in this turn, and awaits _save
InsertAppend(c, now) ==
  /\ pending[c].pc = "relations"
  /\ LET p == pending[c]
     IN IF ~p.ok
          THEN /\ pending' = [pending EXCEPT ![c] = NoCall]
               /\ last' = [Outcome("insert", p.coll, AllQuery, p.doc,
                                   "relation", <<>>, 0) EXCEPT !.hooks = p.log]
               /\ returned' = <<>>
               /\ UNCHANGED <<data, transactionData, clock, issued>>
          ELSE /\ CanIssue(Active)
               /\ LET r2 == GetNextSerial(Active)
                      id == MakeId(r2.serial, p.coll)
                      made == NewDoc(p.doc, id, now)
                      r3 == GetCollectionData(r2, p.coll)
                  IN /\ SetActive([r3 EXCEPT !.data[p.coll] = Append(@, made)])
                     /\ pending' = [pending EXCEPT
                                      ![c].pc = "save", ![c].made = made,
                                      ![c].saving = ~inTransaction]
                     /\ issued' = issued \cup {r2.serial}
               /\ clock' = now
               /\ UNCHANGED <<last, returned>>
  /\ UNCHANGED <<disk, faults, bak>>
  /\ UNCHANGED callRest

\* the backend is done with _save, having written this.data as it was when
\* it serialised it, or has thrown; insert goes on: it throws the backend's
\* error, or clones the record, runs the afterInsert hooks and returns
InsertSaved(c, fail) ==
  /\ pending[c].pc = "save"
  /\ LET p == pending[c]
     IN \E sv \in {Save(~p.saving, data, disk, fail)} :
        LET post == IF sv.err THEN NoRun
                    ELSE RunHooks(hooks[p.coll]["afterInsert"], "afterInsert",
                                  FALSE)
        IN /\ Faulted(sv)
           /\ disk' = sv.disk
           /\ bak' = sv.bak
           /\ last' = [Outcome("insert", p.coll, AllQuery, p.doc,
                               IF sv.err THEN "backend"
                               ELSE IF post.err THEN "hook" ELSE "ok",
                               sv.calls, 1)
                         EXCEPT !.hooks = p.log \o post.log]
           /\ returned' = IF sv.err \/ post.err THEN <<>>
                           ELSE <<Clone(p.made, p.coll, 0)>>
           /\ pending' = [pending EXCEPT ![c] = NoCall]
  /\ UNCHANGED <<data, transactionData, clock, issued>>
  /\ UNCHANGED callRest

------------------------------------------------------------------------------
(* FileStorage.write, step by step. wr is the call in progress: where it   *)
(* stands (pc), the snapshot it was given (arg), the loop variable (i),    *)
(* the delays it has waited (waited), the error it threw (res), and, to    *)
(* state properties, the target file when it began (old), the renames it   *)
(* has attempted (tries) and the errors they failed with (errs).           *)

\* for (let i = 0; i < 5; i++)
Attempts == 5

\* if (i === 4) throw error
LastIndex == 4

\* setTimeout(resolve, 100 * (i + 1))
DelayUnit == 100

Delay(i) == DelayUnit * (i + 1)

\* the errors fs.rename and fs.writeFile fail with
IOErrors == {"EPERM", "EBUSY"}

\* the snapshots written: the empty one at the serials up to MaxInserts
WrittenSnaps == {[EmptySnapshot EXCEPT !.serial = n] : n \in 1..MaxInserts}

\* fs.writeFile has opened the file and written a part of the content
Opened(snap) == [of |-> Write(snap), whole |-> FALSE]

\* a writeFile taken as done while a part of the content is still to come
FlushedPartial(t) == t

\* await fs.writeFile(tempPath, json, 'utf8') has resolved: the whole
\* content is in the file
Flushed(t) == [t EXCEPT !.whole = TRUE]

\* the loop going on after the attempt at index 4
ThrowsAtNever(i) == FALSE

\* if (i === 4) throw error
ThrowsAt(i) == i = LastIndex

FSIdle == wr.pc \in {"idle", "done", "failed"}

ioRest ==
  <<data, inTransaction, transactionData, clock, last, faults, issued,
    indexedEmpty, txBase, returned, options, bak, mem, held, hooks, pending>>

\* write(data) is called: writeFile opens the temporary file, whatever it
\* held, and starts writing
WriteCall(snap) ==
  /\ FSIdle
  /\ wr' = [NoWrite EXCEPT !.pc = "writeFile", !.arg = <<snap>>,
                           !.old = disk]
  /\ tmp' = <<Opened(snap)>>
  /\ UNCHANGED <<disk, torn>>
  /\ UNCHANGED ioRest

\* writeFile resolves and the loop begins
WriteFileDone ==
  /\ wr.pc = "writeFile"
  /\ tmp' = <<Flushed(tmp[1])>>
  /\ wr' = [wr EXCEPT !.pc = "rename"]
  /\ UNCHANGED <<disk, torn>>
  /\ UNCHANGED ioRest

\* writeFile rejects: write throws before the loop
WriteFileThrow(e) ==
  /\ wr.pc = "writeFile"
  /\ wr' = [wr EXCEPT !.pc = "failed", !.res = e]
  /\ UNCHANGED <<disk, torn, tmp>>
  /\ UNCHANGED ioRest

\* fs.rename(tempPath, this.filePath) succeeds: the temporary file becomes
\* the target file in one step, and write returns
RenameDone ==
  /\ wr.pc = "rename"
  /\ disk' = tmp[1].of
  /\ torn' = ~tmp[1].whole
  /\ tmp' = <<>>
  /\ wr' = [wr EXCEPT !.pc = "done", !.tries = wr.tries + 1]
  /\ UNCHANGED ioRest

\* fs.rename fails with e: thrown at the last index, else caught and the
\* delay awaited
RenameFail(e) ==
  /\ wr.pc = "rename"
  /\ wr.i < Attempts
  /\ wr' = IF ThrowsAt(wr.i)
             THEN [wr EXCEPT !.pc = "failed", !.res = e,
                             !.tries = wr.tries + 1,
                             !.errs = Append(wr.errs, e)]
             ELSE [wr EXCEPT !.pc = "wait", !.tries = wr.tries + 1,
                             !.errs = Append(wr.errs, e)]
  /\ UNCHANGED <<disk, torn, tmp>>
  /\ UNCHANGED ioRest

\* the timer fires: i++ and the next attempt
WaitDone ==
  /\ wr.pc = "wait"
  /\ wr' = [wr EXCEPT !.pc = IF wr.i + 1 < Attempts THEN "rename" ELSE "done",
                      !.waited = Append(wr.waited, Delay(wr.i)),
                      !.i = wr.i + 1]
  /\ UNCHANGED <<disk, torn, tmp>>
  /\ UNCHANGED ioRest

\* the process dies during a call of write: the files stay as they are
Crash ==
  /\ ~FSIdle
  /\ wr' = [NoWrite EXCEPT !.old = wr.old, !.arg = wr.arg]
  /\ UNCHANGED <<disk, torn, tmp>>
  /\ UNCHANGED ioRest

------------------------------------------------------------------------------
(* The backends called directly: write and read of MemoryStorage and of    *)
(* FileStorage, and a caller that changes the objects it passed and got    *)

\* a string that holds a quote and a backslash
ValQ == <<34, 92>>

\* the snapshots a caller writes: one user, whose email is absent, null, a
\* plain string or a string to escape, at a serial of one or of two digits
CallerSnaps ==
  {[EmptySnapshot EXCEPT !.serial = n, !.keys = {"users"},
                         !.data["users"] = <<[id |-> MakeId(n, "users"),
                                              created_at |-> ToISOString(n),
                                              updated_at |-> ToISOString(n),
                                              email |-> v, ref |-> Undef]>>] :
     n \in {1, 12}, v \in {Undef, Null, ValA, ValQ}}

\* this.data = data, without a copy: the backend holds the caller's object
Kept(snap) == [val |-> snap, same |-> TRUE]

\* JSON.parse(JSON.stringify(data)): an object of its own
Copied(snap) == [val |-> JsonCopy(snap), same |-> FALSE]

storeVars ==
  <<data, inTransaction, transactionData, clock, faults, issued, indexedEmpty,
    txBase, returned, options, bak, tmp, torn, wr, hooks, pending>>

\* MemoryStorage.write(data)
MemWrite(snap) ==
  /\ LET kept == Copied(snap)
     IN /\ mem' = kept.val
        /\ held' = [sent |-> <<[val |-> snap, on |-> "mem",
                                same |-> kept.same, was |-> snap]>>,
                    got |-> IF held.got # <<>> /\ held.got[1].on = "mem"
                              THEN <<[held.got[1] EXCEPT !.same = FALSE]>>
                              ELSE held.got]
  /\ last' = Outcome("write", "mem", AllQuery, NoDoc, "ok", <<>>, 0)
  /\ UNCHANGED disk
  /\ UNCHANGED storeVars

\* MemoryStorage.read()
MemRead ==
  /\ LET out == Copied(mem)
     IN held' = [held EXCEPT !.got = <<[val |-> out.val, on |-> "mem",
                                        same |-> out.same, was |-> out.val]>>]
  /\ last' = Outcome("read", "mem", AllQuery, NoDoc, "ok", <<>>, 0)
  /\ UNCHANGED <<mem, disk>>
  /\ UNCHANGED storeVars

\* FileStorage.write(data), from its call to its return
FileWrite(snap) ==
  /\ FSIdle
  /\ disk' = Write(snap)
  /\ held' = [held EXCEPT !.sent = <<[val |-> snap, on |-> "file",
                                      same |-> FALSE, was |-> snap]>>]
  /\ last' = Outcome("write", "file", AllQuery, NoDoc, "ok", <<>>, 0)
  /\ UNCHANGED mem
  /\ UNCHANGED storeVars

\* FileStorage.read()
FileRead ==
  /\ held' = [held EXCEPT !.got = <<[val |-> Read(disk), on |-> "file",
                                     same |-> FALSE, was |-> Read(disk)]>>]
  /\ last' = Outcome("read", "file", AllQuery, NoDoc, "ok", <<>>, 0)
  /\ UNCHANGED <<mem, disk>>
  /\ UNCHANGED storeVars

\* what a caller does to a snapshot object: it removes the users
Emptied(snap) == [snap EXCEPT !.data["users"] = <<>>]

\* the caller changes the object it passed to write (sent) or the object
\* read returned (got). The change is in the object, and so in
\* MemoryStorage.data and in any other object that is the same.
MutateHeld(which) ==
  /\ held[which] # <<>>
  /\ Emptied(held[which][1].val) # held[which][1].val
  /\ LET h == held[which][1]
         touch(o) == IF o # <<>> /\ o[1].same /\ h.same
                       THEN <<[o[1] EXCEPT !.val = Emptied(o[1].val)]>>
                       ELSE o
         mine == <<[h EXCEPT !.val = Emptied(h.val)]>>
     IN /\ held' = [sent |-> IF which = "sent" THEN mine ELSE touch(held.sent),
                    got |-> IF which = "got" THEN mine ELSE touch(held.got)]
        /\ mem' = IF h.same THEN Emptied(mem) ELSE mem
  /\ last' = Outcome("mutateHeld", held[which][1].on, AllQuery, NoDoc, "ok", <<>>, 0)
  /\ UNCHANGED disk
  /\ UNCHANGED storeVars

------------------------------------------------------------------------------
(* Specifications: the operations over the inputs of one group of          *)
(* properties each                                                         *)

ReadFailures == {"none", "read"}

\* transactions and persistence: every Store operation, and insert, update
\* and remove on one collection, of one payload, at one instant
NextTx ==
  \/ \E fail \in ReadFailures : Load(fail)
  \/ \E fail \in ReadFailures : BeginTransaction(fail)
  \/ \E fail \in Failures : Commit(fail)
  \/ Rollback
  \/ DefineRelation("users", "posts", "email")
  \/ FindAct("users")
  \/ \E fail \in Failures : Insert("users", EmailDoc(ValA), clock, fail)
  \/ \E fail \in Failures : Update("users", AllQuery, EmailDoc(ValB), clock, fail)
  \/ \E fail \in Failures : Remove("users", AllQuery, fail)

InitTx == Init /\ disk = <<>>

SpecTx == InitTx /\ [][NextTx]_vars

\* uniqueness: a unique index on users.email, transactions, and inserts,
\* updates, upserts and removes of users with and without an email; the
\* backend fails during inserts only
NextUnique ==
  \/ BeginTransaction("none")
  \/ Commit("none")
  \/ Rollback
  \/ CreateIndex("users", TRUE)
  \/ \E v \in {Undef, ValA, ValB}, fail \in Failures :
       Insert("users", EmailDoc(v), clock, fail)
  \/ \E q \in {AllQuery, FieldQuery("email", ValA)} :
       Update("users", q, EmailDoc(ValB), clock, "none")
  \/ \E v \in {ValA, ValB} :
       Upsert("users", FieldQuery("email", ValA), EmailDoc(v), clock, "none")
  \/ Remove("users", FieldQuery("email", ValB), "none")

\* a Store made with { backup: false } on a backend with no file: the backup,
\* which the Store never reads, stays out of the state
InitNoBackup == InitStore([backup |-> FALSE]) /\ disk = <<>>

SpecUnique == InitNoBackup /\ [][NextUnique]_vars

\* relation integrity: the relation posts.ref -> users.email, transactions,
\* one user, posts with and without a reference, and updates of the posts'
\* reference to an email a user can hold and to one no user holds
NextRel ==
  \/ BeginTransaction("none")
  \/ Commit("none")
  \/ Rollback
  \/ DefineRelation("posts", "users", "email")
  \/ Insert("users", EmailDoc(ValA), clock, "none")
  \/ \E w \in {Undef, Null, ValA} :
       Insert("posts", RefDoc(w), clock, "none")
  \/ \E w \in {ValA, ValB}, now \in Now :
       Update("posts", AllQuery, RefDoc(w), now, "none")
  \/ Remove("users", AllQuery, "none")

SpecRel == InitNoBackup /\ [][NextRel]_vars

\* system fields: payloads and patches with and without an id, a created_at
\* and an updated_at of the caller's, over a clock that advances
NextFields ==
  \/ BeginTransaction("none")
  \/ Commit("none")
  \/ Rollback
  \/ \E doc \in {NoDoc, ForgedDoc(ValA)}, now \in Now :
       Insert("users", doc, now, "none")
  \/ \E patch \in {EmailDoc(ValB), ForgedDoc(ValB), ForgedDoc(Undef)}, now \in Now :
       Update("users", FieldQuery("email", ValA), patch, now, "none")
  \/ \E now \in Now : Update("users", AllQuery, ForgedDoc(ValA), now, "none")
  \/ Remove("users", FieldQuery("email", ValB), "none")

SpecFields == InitTx /\ [][NextFields]_vars

\* a user that refers to a user by email
BothDoc(v, w) == [NoDoc EXCEPT !.email = v, !.ref = w]

\* reading: find and findOne with and without populate, under a relation
\* from users to users.email, inside and outside transactions, and callers
\* that write into the objects they were given
NextFind ==
  \/ BeginTransaction("none")
  \/ Commit("none")
  \/ Rollback
  \/ DefineRelation("users", "users", "email")
  \/ \E w \in {Undef, Null, ValA, ValB} :
       Insert("users", BothDoc(ValA, w), clock, "none")
  \/ \E one \in BOOLEAN, populate \in BOOLEAN :
       FindCall("users", AllQuery, one, populate)
  \/ \E i \in 1..MaxInserts, deep \in BOOLEAN : MutateReturned(i, deep, ValB)

SpecFind == InitNoBackup /\ [][NextFind]_vars

\* a Store made with the backup option on or off
InitBackup == \E b \in BOOLEAN : InitStore([backup |-> b])

\* saving: inserts, updates, removes and commits whose backup or write may
\* throw, inside and outside transactions, with the backup option on and off
NextBackup ==
  \/ BeginTransaction("none")
  \/ \E fail \in Failures : Commit(fail)
  \/ \E fail \in Failures : Insert("users", EmailDoc(ValA), clock, fail)
  \/ Update("users", AllQuery, EmailDoc(ValB), clock, "none")
  \/ Remove("users", AllQuery, "none")

SpecBackup == InitBackup /\ [][NextBackup]_vars

\* one call of FileStorage.write after another, each running to its end or
\* cut short by a crash
WriteStep ==
  \/ WriteFileDone
  \/ \E e \in IOErrors : WriteFileThrow(e)
  \/ RenameDone
  \/ \E e \in IOErrors : RenameFail(e)
  \/ WaitDone

NextWrite ==
  \/ \E snap \in WrittenSnaps : WriteCall(snap)
  \/ WriteStep
  \/ Crash

SpecWrite == InitTx /\ [][NextWrite]_vars

\* the same, where a call in progress goes on: promises settle and timers
\* fire
SpecWriteFair == SpecWrite /\ WF_vars(WriteStep)

\* the backends called directly, and a caller that changes the objects it
\* holds
NextStorage ==
  \/ \E snap \in CallerSnaps : MemWrite(snap)
  \/ MemRead
  \/ \E snap \in CallerSnaps : FileWrite(snap)
  \/ FileRead
  \/ \E which \in {"sent", "got"} : MutateHeld(which)

SpecStorage == InitTx /\ [][NextStorage]_vars

\* the fields a relation can refer to
RefFields == {"email", "id"}

\* definitions: indexes, unique or not, and relations to users.email and to
\* users.id on both collections, inside and outside transactions
NextMeta ==
  \/ BeginTransaction("none")
  \/ Rollback
  \/ \E name \in Colls, unique \in BOOLEAN : CreateIndex(name, unique)
  \/ \E name \in Colls, field \in RefFields :
       DefineRelation(name, "users", field)

SpecMeta == InitNoBackup /\ [][NextMeta]_vars

\* ids and serials: loads, transactions, and inserts and removes on both
\* collections, on a new backend and on one whose serial is about to outgrow
\* the padding
NextIds ==
  \/ \E fail \in ReadFailures : Load(fail)
  \/ \E fail \in ReadFailures : BeginTransaction(fail)
  \/ \E fail \in Failures : Commit(fail)
  \/ Rollback
  \/ \E name \in Colls, fail \in Failures : Insert(name, NoDoc, clock, fail)
  \/ \E name \in Colls, fail \in Failures : Remove(name, AllQuery, fail)

SpecIds == Init /\ [][NextIds]_vars

\* hooks: callbacks that return and callbacks that throw, registered on the
\* events of users, known and unknown, and the operations that run them,
\* inside and outside transactions
NextHooks ==
  \/ BeginTransaction("none")
  \/ Rollback
  \/ \E event \in HookEvents \cup {"beforeFind"}, callback \in Callbacks :
       AddHook("users", event, callback)
  \/ Insert("users", EmailDoc(ValA), clock, "none")
  \/ Update("users", FieldQuery("email", ValA), RefDoc(ValB), clock, "none")
  \/ Remove("users", FieldQuery("ref", ValB), "none")
  \/ \E v \in {ValA, ValB} :
       Upsert("users", FieldQuery("email", v), BothDoc(v, ValA), clock, "none")

SpecHooks == InitNoBackup /\ [][NextHooks]_vars

\* update and remove on a collection of up to three records, some matching
\* and some not, inside and outside transactions
NextSeeded ==
  \/ BeginTransaction("none")
  \/ Commit("none")
  \/ Rollback
  \/ \E v \in {ValA, ValB} : Insert("users", EmailDoc(v), clock, "none")
  \/ \E v \in {ValA, ValB} : Remove("users", FieldQuery("email", v), "none")
  \/ \E patch \in {RefDoc(ValB), ForgedDoc(ValB)} :
       Update("users", FieldQuery("email", ValA), patch, clock, "none")

SpecSeeded == InitSeeded /\ [][NextSeeded]_vars

\* the sort options of find: none, or one field and its order
Sorts == {<<>>, <<"email", "asc">>, <<"email", "desc">>, <<"id", "asc">>}

\* queries: findOne and find, sorted and not, on a collection of up to three
\* records, with and without the field sorted by, and on a collection never
\* written, inside and outside transactions
NextQuery ==
  \/ BeginTransaction("none")
  \/ Rollback
  \/ \E doc \in {NoDoc, EmailDoc(ValA), EmailDoc(ValB)} :
       Insert("users", doc, clock, "none")
  \/ \E name \in Colls, q \in {AllQuery, FieldQuery("email", ValB)} :
       FindCall(name, q, TRUE, FALSE)
  \/ \E q \in {AllQuery, FieldQuery("email", ValB)}, sort \in Sorts :
       FindSorted("users", q, sort)

SpecQuery == InitSeeded /\ [][NextQuery]_vars

\* the values of a property: numbers and arrays of two numbers
PropValues == {Num(1), Num(2), Arr(<<Num(1), Num(2)>>), Arr(<<Num(2), Num(1)>>)}

\* the objects with properties a and b, in either order, or fewer
Objects ==
  {Obj(<<>>)}
    \cup {Obj(<<[k |-> key, v |-> x]>>) : key \in {ValA, ValB}, x \in PropValues}
    \cup {Obj(<<[k |-> ValA, v |-> x], [k |-> ValB, v |-> y]>>) :
            x \in PropValues, y \in PropValues}
    \cup {Obj(<<[k |-> ValB, v |-> y], [k |-> ValA, v |-> x]>>) :
            x \in PropValues, y \in PropValues}

\* matching: a query value that is an object against a field that holds an
\* object, a number or an array, or is absent
NextMatch ==
  \E stored \in Objects \cup PropValues \cup {Absent}, value \in Objects :
    MatchCall(stored, value)

SpecMatch == InitNoBackup /\ [][NextMatch]_vars

\* definitions and what carries them to the backend: createIndex and
\* defineRelation inside and outside transactions, commit, rollback, and
\* inserts whose save succeeds or throws
NextDefs ==
  \/ BeginTransaction("none")
  \/ Commit("none")
  \/ Rollback
  \/ \E unique \in BOOLEAN : CreateIndex("users", unique)
  \/ DefineRelation("users", "users", "email")
  \/ \E fail \in {"none", "write"} : Insert("users", EmailDoc(ValA), clock, fail)

SpecDefs == InitNoBackup /\ [][NextDefs]_vars

\* referential integrity: the relation posts.ref -> users.email defined on
\* the empty store, users, posts that refer to them, and the removal of both
NextIntegrity ==
  \/ DefineRelation("posts", "users", "email")
  \/ Insert("users", EmailDoc(ValA), clock, "none")
  \/ \E w \in {Null, ValA, ValB} : Insert("posts", RefDoc(w), clock, "none")
  \/ Update("posts", AllQuery, RefDoc(ValA), clock, "none")
  \/ Upsert("posts", FieldQuery("ref", ValA), RefDoc(ValA), clock, "none")
  \/ \E name \in Colls : Remove(name, AllQuery, "none")

SpecIntegrity == InitNoBackup /\ [][NextIntegrity]_vars

\* definitions made inside and outside transactions and the calls that read
\* them: a relation users.ref -> users.email and a unique index on
\* users.email, inserts, updates of the reference, find with populate
NextLiveDefs ==
  \/ BeginTransaction("none")
  \/ Commit("none")
  \/ Rollback
  \/ DefineRelation("users", "users", "email")
  \/ CreateIndex("users", TRUE)
  \/ \E w \in {Undef, ValA, ValB} :
       Insert("users", BothDoc(ValA, w), clock, "none")
  \/ Update("users", AllQuery, RefDoc(ValB), clock, "none")
  \/ FindCall("users", AllQuery, FALSE, TRUE)

SpecLiveDefs == InitNoBackup /\ [][NextLiveDefs]_vars

\* calls of insert in flight at once: a unique index on users.email and
\* inserts of users with and without an email, begun without awaiting each
\* other and going on turn by turn in any order; no transaction
NextInFlight ==
  \/ CreateIndex("users", TRUE)
  \/ \E c \in Calls, v \in {Undef, ValA, ValB} :
       InsertCall(c, "users", EmailDoc(v))
  \/ \E c \in Calls : InsertCheck(c)
  \/ \E c \in Calls : InsertFound(c)
  \/ \E c \in Calls : InsertAppend(c, clock)
  \/ \E c \in Calls, fail \in {"none", "write"} : InsertSaved(c, fail)

SpecInFlight == InitNoBackup /\ [][NextInFlight]_vars

------------------------------------------------------------------------------
(* Observations *)

\* a second Store made by LitheDB.create on the same backend
FreshStore == Read(disk)

\* find(q) on a collection of a root
FindIn(root, name, q) == Find(GetCollectionData(root, name), name, q)

Ids(docs) == {docs[i].id : i \in 1..Len(docs)}

\* the last operation called storage.backup or storage.write
Persisting(calls) == \E i \in 1..Len(calls) : calls[i] \in {"backup", "write"}

\* two snapshots hold the same serial, indices, relations and records
SameContent(s1, s2) ==
  /\ s1.serial = s2.serial
  /\ s1.indices = s2.indices
  /\ s1.relations = s2.relations
  /\ s1.data = s2.data

------------------------------------------------------------------------------
(* Transactions *)

\* an insert made inside a transaction: the new record is found through the
\* Store, not through a second Store on the backend, and nothing is persisted
C1_InsertStep ==
  (inTransaction /\ last'.op = "insert" /\ last'.res = "ok") =>
    LET list == Active'.data[last'.coll]
        rec == list[Len(list)]
    IN /\ Len(list) = Len(Active.data[last'.coll]) + 1
       /\ rec.id \in Ids(FindIn(Active', last'.coll, AllQuery))
       /\ rec.id \notin Ids(FindIn(FreshStore', last'.coll, AllQuery))
       /\ ~Persisting(last'.calls)

\* whatever is called inside a transaction other than commit leaves the backend alone
C1_QuietStep ==
  (inTransaction /\ last'.op # "commit") =>
    (disk' = disk /\ ~Persisting(last'.calls))

\* a commit that succeeds shows every record of the sandbox to a second Store
C1_CommitStep ==
  (inTransaction /\ last'.op = "commit" /\ last'.res = "ok") =>
    \A name \in Colls :
      Ids(transactionData[1].data[name]) \subseteq
        Ids(FindIn(FreshStore', name, AllQuery))

\* C1: after beginTransaction a record inserted through the Store's
\* collection is returned by find on that Store but not by find on a second
\* Store freshly loaded from the same backend, and no backup or write reaches
\* the backend, until commit is called; after a commit that succeeds a freshly
\* loaded Store returns it.
C1_TransactionIsolation ==
  [][C1_InsertStep /\ C1_QuietStep /\ C1_CommitStep]_vars

\* a record sits in the sandbox, found through the Store and not on the backend
C1_Witness ==
  /\ inTransaction
  /\ last.op = "insert" /\ last.res = "ok"
  /\ FindIn(Active, "users", AllQuery) # <<>>
  /\ FindIn(FreshStore, "users", AllQuery) = <<>>

\* a step that rolls an open transaction back
RollbackStep == inTransaction /\ last'.op = "rollback"

\* C2 as stated: after beginTransaction, any operations and rollback, nothing
\* was persisted, the active root is the live snapshot again, and the live
\* snapshot (data, serial, indices, relations) equals the live snapshot as it
\* was immediately before beginTransaction.
C2_RollbackRestoresPreBegin ==
  [][RollbackStep =>
       /\ ~Persisting(last'.calls) /\ disk' = disk
       /\ Active' = data'
       /\ SameContent(data', txBase[1])]_vars

\* C2 amended: while a transaction is open the live snapshot is the snapshot
\* beginTransaction loaded from the backend, which is still the persisted one;
\* rollback persists nothing and leaves that live snapshot, so no change of
\* the transaction is observable through the Store afterwards. (What the live
\* snapshot held unsaved before beginTransaction was dropped by its reload.)
C2_RollbackRestoresLoaded ==
  /\ [](inTransaction => data = Read(disk))
  /\ [][RollbackStep =>
          /\ ~Persisting(last'.calls) /\ disk' = disk
          /\ ~inTransaction' /\ Active' = data'
          /\ data' = data
          /\ \A name \in Colls, q \in {AllQuery} :
               FindIn(Active', name, q) = FindIn(Read(disk), name, q)]_vars

\* a transaction that inserted a record has been rolled back
C2_Witness ==
  /\ last.op = "rollback"
  /\ ~inTransaction
  /\ issued # {}
  /\ data.serial = 0
  /\ data.data["users"] = <<>>

\* C3: commit with an open transaction makes the sandbox the live snapshot,
\* closes the transaction and persists it: after a commit that succeeds the
\* backend's snapshot, the live snapshot and the sandbox as it was just before
\* the commit are equal. Commit with no open transaction changes nothing and
\* calls the backend not at all.
C3_Commit ==
  [][(last'.op = "commit") =>
       IF inTransaction
         THEN /\ data' = transactionData[1]
              /\ ~inTransaction'
              /\ transactionData' = <<>>
              /\ last'.res = "ok" =>
                   (Read(disk') = data' /\ Persisting(last'.calls))
         ELSE /\ UNCHANGED <<data, inTransaction, transactionData, disk>>
              /\ last'.calls = <<>>]_vars

\* a transaction holding a record has been committed and persisted
C3_Witness ==
  /\ last.op = "commit" /\ last.res = "ok"
  /\ data.data["users"] # <<>>
  /\ Read(disk) = data

------------------------------------------------------------------------------
(* Ids and serials *)

AllDocs(root) == UNION {{root.data[c][i] : i \in 1..Len(root.data[c])} : c \in Colls}

\* the position of the first underscore of an id
Underscore(id) == CHOOSE i \in 1..Len(id) : id[i] = 95 /\ \A j \in 1..(i - 1) : id[j] # 95

\* the serial an id was made from: its digits before the underscore
IdSerial(id) == DigitsValue(SubSeq(id, 1, Underscore(id) - 1))

\* the part of an id after the 6-digit serial and the underscore
IdTail(id) == SubSeq(id, PadWidth + 2, Len(id))

DistinctIds(root) ==
  \A c1, c2 \in Colls :
    \A i \in 1..Len(root.data[c1]), j \in 1..Len(root.data[c2]) :
      root.data[c1][i].id = root.data[c2][j].id => (c1 = c2 /\ i = j)

\* a step in which insert appended a record
InsertedStep == last'.op = "insert" /\ last'.res \in {"ok", "backend"}

\* the record an insert step appended
Inserted == LET list == Active'.data[last'.coll] IN list[Len(list)]

\* C4: in every reachable state the records of the active root have pairwise
\* distinct ids across all collections; the id of a newly inserted record is
\* lexicographically greater than the id of every record inserted before it;
\* and the part of the id after the zero-padded 6-digit serial and the
\* underscore is the name of the collection it was inserted into.
C4_IdsOrderedAndSelfDescribing ==
  /\ [](DistinctIds(Active))
  /\ [][InsertedStep =>
          /\ \A doc \in AllDocs(Active) : LexLess(doc.id, Inserted.id)
          /\ IdTail(Inserted.id) = NameCodes(last'.coll)]_vars

\* every record of a root carries a serial of its own, issued by that root
SerialsWithin(root) ==
  /\ DistinctIds(root)
  /\ \A doc \in AllDocs(root) : IdSerial(doc.id) \in 1..root.serial

\* C5 as stated: the serial counter of the active root never decreases, and
\* no serial is issued to more than one insert.
C5_SerialNeverReissued ==
  [][/\ Active'.serial >= Active.serial
     /\ InsertedStep => Active'.serial \notin issued]_vars

\* C5 amended: the serial of the backend's persisted snapshot never decreases;
\* every insert issues the active root's serial plus one, which is above the
\* persisted serial; and in each root (live, sandbox, persisted) every record
\* carries a serial of its own that is at most the root's serial. The active
\* root's serial does fall back on rollback and on a reload from the backend,
\* and serials issued only in the discarded root are issued again.
C5_SerialsPerRoot ==
  /\ [](/\ SerialsWithin(data)
        /\ SerialsWithin(Read(disk))
        /\ inTransaction => SerialsWithin(transactionData[1])
        /\ Active.serial >= Read(disk).serial)
  /\ [][/\ Read(disk').serial >= Read(disk).serial
        /\ InsertedStep =>
             /\ Active'.serial = Active.serial + 1
             /\ IdSerial(Inserted.id) = Active'.serial
             /\ Active'.serial > Read(disk).serial]_vars

\* an insert outside a transaction issued a serial that had been issued before
C5_Witness ==
  /\ last.op = "insert" /\ last.res = "ok"
  /\ ~inTransaction
  /\ data.serial = 1
  /\ issued = {1, 2}

------------------------------------------------------------------------------
(* Uniqueness *)

UniqueIndexed(root, name) == GetIndices(root, name)["email"] = "unique"

\* some record of the collection holds the payload's defined email
Held(root, name, doc) ==
  /\ doc.email # Undef
  /\ \E i \in 1..Len(root.data[name]) : root.data[name][i].email = doc.email

\* no two records of the collection hold the same defined email
NoDuplicate(root, name) ==
  \A i, j \in 1..Len(root.data[name]) :
    (i # j /\ root.data[name][i].email # Undef)
      => root.data[name][i].email # root.data[name][j].email

\* C6: with a unique index on the collection's field in the active root, an
\* insert whose payload defines the field with a value some record of the
\* collection holds fails with a Uniqueness error, appends no record, consumes
\* no serial and calls the backend not at all; an insert whose payload leaves
\* the field absent, or gives it a value no record holds, is not rejected by
\* the uniqueness check.
C6_UniqueInsert ==
  [][(last'.op = "insert" /\ UniqueIndexed(Active, last'.coll)) =>
       IF Held(Active, last'.coll, last'.doc)
         THEN /\ last'.res = "unique"
              /\ Active'.data = Active.data
              /\ Active'.serial = Active.serial
              /\ last'.calls = <<>>
              /\ disk' = disk
         ELSE last'.res # "unique"]_vars

\* with a unique index and one user, an insert of that user's email was rejected
C6_Witness ==
  /\ last.op = "insert" /\ last.res = "unique"
  /\ UniqueIndexed(Active, "users")
  /\ Len(Active.data["users"]) = 1
  /\ Held(Active, "users", last.doc)

\* C7 as stated: once createIndex(unique) was called on an empty collection,
\* no two records of the collection in the active root hold the same defined
\* value of the field, whatever inserts, updates, upserts, removes,
\* beginTransaction, commit and rollback follow.
C7_UniqueSinceEmpty ==
  \A c \in indexedEmpty : NoDuplicate(Active, c)

CollectionOps == {"insert", "update", "remove", "upsertInsert", "upsertUpdate"}

\* C7 amended: while the active root holds the unique index, every insert,
\* update, upsert and remove that starts with no two records of the collection
\* sharing a defined value of the field ends with none sharing one. The
\* active root loses an index that no save had persisted when beginTransaction
\* reloads the backend's snapshot, and one created inside a transaction when
\* the transaction is rolled back; duplicates can be stored from then on.
C7_UniquePreserved ==
  [][(/\ last'.op \in CollectionOps
      /\ UniqueIndexed(Active, last'.coll)
      /\ NoDuplicate(Active, last'.coll))
       => NoDuplicate(Active', last'.coll)]_vars

\* under the index created on the empty collection, an update that would have
\* made two users share an email was rejected
C7_Witness ==
  /\ "users" \in indexedEmpty
  /\ UniqueIndexed(Active, "users")
  /\ last.op = "update" /\ last.res = "unique"
  /\ Len(Active.data["users"]) = 2
  /\ NoDuplicate(Active, "users")

------------------------------------------------------------------------------
(* All-or-nothing updates *)

\* a step in which update failed a uniqueness or relation check
UpdateRejected == last'.op = "update" /\ last'.res \in {"unique", "relation"}

\* C9: when update fails the uniqueness or the relation check of one of the
\* records it matched, no record of the collection differs from its state
\* before the call and nothing is persisted.
C9_UpdateAllOrNothing ==
  [][UpdateRejected =>
       /\ Active'.data[last'.coll] = Active.data[last'.coll]
       /\ disk' = disk]_vars

------------------------------------------------------------------------------
(* Relation integrity *)

RelationOf(root, name) == root.relations[name]["ref"]

\* some record of the referenced collection holds the value in the
\* referenced field
Referenced(root, rel, val) ==
  \E i \in 1..Len(root.data[rel.ref]) : root.data[rel.ref][i][rel.field] = val

\* what C8 states of an insert step, the relation being read from snapshot
\* defs and the referenced records looked up in the active root
RelationInsertStep(defs) ==
  LET name == last'.coll
      rel == RelationOf(defs, name)
      val == last'.doc.ref
  IN (last'.op = "insert" /\ rel # NoRel) =>
       IF val = Undef \/ val = Null \/ Referenced(Active, rel, val)
         THEN last'.res # "relation"
         ELSE /\ last'.res = "relation"
              /\ Active'.data = Active.data
              /\ Active'.serial = Active.serial

\* C8 as stated: with a relation defined (by defineRelation, so in the active
\* root), an insert whose payload gives the field a non-null value succeeds
\* only if a record of the referenced collection holds it, and otherwise
\* fails with a Relation-integrity error, appending nothing and consuming no
\* serial; a payload whose field is absent or null is never rejected.
C8_RelationInsert == [][RelationInsertStep(Active)]_vars

\* C8 amended: the same, for a relation that is defined in the live snapshot,
\* the referenced record being looked up in the active root; and with no
\* relation in the live snapshot no insert is rejected by the relation check.
\* A relation defined inside an open transaction is in the sandbox only and
\* is not enforced before the commit.
C8_RelationInsertLive ==
  [][/\ RelationInsertStep(data)
     /\ (last'.op = "insert" /\ RelationOf(data, last'.coll) = NoRel)
          => last'.res # "relation"]_vars

\* inside a transaction a post referring to a user of the sandbox was
\* inserted under the relation
C8_Witness ==
  /\ last.op = "insert" /\ last.coll = "posts" /\ last.res = "ok"
  /\ last.doc.ref = ValA
  /\ inTransaction
  /\ RelationOf(data, "posts") # NoRel
  /\ data.data["users"] = <<>>
  /\ Len(Active.data["users"]) = 1

\* C10: an update of a single record whose patch sets the relation field to a
\* non-null value that no record of the referenced collection holds fails
\* with a Relation-integrity error and leaves the record in the in-memory
\* root with its previous field values and its previous updated_at.
C10_RejectedUpdateKeepsRecord ==
  [][LET name == last'.coll
         rel == RelationOf(data, name)
         val == last'.doc.ref
     IN (/\ last'.op = "update"
         /\ rel # NoRel /\ RelationOf(Active, name) = rel
         /\ Len(Find(Active, name, last'.q)) = 1
         /\ val # Undef /\ val # Null
         /\ ~Referenced(Active, rel, val))
          => /\ last'.res = "relation"
             /\ Active'.data[name] = Active.data[name]]_vars

------------------------------------------------------------------------------
(* System fields *)

\* the records of the step's collection, before and after the step
Before == Active.data[last'.coll]
After == Active'.data[last'.coll]

\* C11: insert gives the new record an id, a created_at and an updated_at of
\* the engine's (the id made from the serial, both instants the current
\* time) whatever the payload gives for them; update changes no record's id
\* or created_at whatever the patch holds, and every record it updates gets
\* the current time as updated_at, not the patch's updated_at.
C11_SystemFields ==
  [][/\ InsertedStep =>
          /\ Inserted.id = MakeId(Active'.serial, last'.coll)
          /\ Inserted.created_at = ToISOString(clock')
          /\ Inserted.updated_at = ToISOString(clock')
     /\ last'.op = "update" =>
          /\ Len(After) = Len(Before)
          /\ \A i \in 1..Len(Before) :
               /\ After[i].id = Before[i].id
               /\ After[i].created_at = Before[i].created_at
               /\ Match(Before[i], last'.q) =>
                    After[i].updated_at = ToISOString(clock')
               /\ ~Match(Before[i], last'.q) => After[i] = Before[i]]_vars

\* a record inserted at instant 0 with forged system fields was updated at
\* instant 1 by a patch with forged system fields
C11_Witness ==
  /\ last.op = "update" /\ last.res = "ok" /\ last.count = 1
  /\ last.doc = ForgedDoc(ValB)
  /\ LET rec == Active.data["users"][1]
     IN /\ rec.email = ValB
        /\ rec.created_at = ToISOString(0)
        /\ rec.updated_at = ToISOString(1)
        /\ rec.id = MakeId(1, "users")

------------------------------------------------------------------------------
(* Clones *)

\* what find and findOne, with and without populate, return for the queries
\* of a caller
Answers(root, live) ==
  [name \in Colls, q \in {AllQuery, FieldQuery("email", ValA)},
   one \in BOOLEAN, populate \in BOOLEAN |->
     Found(root, live, name, q, one, populate)]

\* C12: a write into a record object that insert, find or findOne returned,
\* with or without populate, at the top level or in the record a populated
\* field holds, changes neither what find and findOne return afterwards nor
\* the snapshots that are persisted later.
C12_CloneIsolation ==
  [][last'.op = "mutate" =>
       /\ Answers(Active', data') = Answers(Active, data)
       /\ data' = data
       /\ transactionData' = transactionData
       /\ disk' = disk]_vars

\* a caller has overwritten the email of the user that the relation field
\* of the second user it was given holds, and the stored users keep theirs
C12_Witness ==
  /\ last.op = "mutate"
  /\ Len(returned) = 2
  /\ returned[2].pop # <<>>
  /\ returned[2].pop[1].val.email = ValB
  /\ Len(Active.data["users"]) = 2
  /\ \A i \in 1..2 : Active.data["users"][i].email = ValA

------------------------------------------------------------------------------
(* Backups *)

\* C13: with the backup option on, a save outside a transaction calls backup
\* and only then write, so after a save that succeeded the backup holds the
\* content that was persisted right before it; with the option off, backup
\* is never called and the backup stays as it was.
C13_BackupBeforeWrite ==
  [][Persisting(last'.calls) =>
       IF options.backup
         THEN /\ last'.calls[1] = "backup"
              /\ Len(last'.calls) = 2 => last'.calls[2] = "write"
              /\ Len(last'.calls) <= 2
              /\ last'.res = "ok" =>
                    /\ last'.calls = <<"backup", "write">>
                    /\ bak' = disk
                    /\ disk' = Write(data')
         ELSE /\ last'.calls = <<"write">>
              /\ bak' = bak]_vars

\* a second insert was saved with the backup option on: the backup holds the
\* file of the first insert, the target file holds both records
C13_Witness ==
  /\ options.backup
  /\ last.op = "insert"
  /\ last.res = "ok"
  /\ last.calls = <<"backup", "write">>
  /\ bak # <<>>
  /\ Len(bak[1].data["users"]) = 1
  /\ Len(disk[1].data["users"]) = 2

------------------------------------------------------------------------------
(* FileStorage.write *)

\* C14: at every step of a call of FileStorage.write, and after a crash, a
\* failed rename or the last failed attempt, the target file holds the whole
\* content it held when the call began or the whole content of the snapshot
\* written, never a part; the target file changes only by the rename of a
\* temporary file that holds the whole new content; a call that returned
\* left the new content, a call that threw left the old.
C14_CrashSafe ==
  /\ [](/\ ~torn
        /\ wr.arg # <<>> => disk \in {wr.old, Write(wr.arg[1])}
        /\ wr.pc = "done" => disk = Write(wr.arg[1])
        /\ wr.pc \in {"writeFile", "rename", "wait", "failed"} => disk = wr.old)
  /\ [][disk' # disk =>
          /\ wr.pc = "rename"
          /\ tmp # <<>>
          /\ tmp[1].whole
          /\ disk' = tmp[1].of
          /\ disk' = Write(wr.arg[1])]_vars

\* the process died while writeFile was writing the temporary file of a
\* second snapshot: the temporary file is partial, the target file holds the
\* first snapshot
C14_Witness ==
  /\ wr.pc = "idle"
  /\ tmp # <<>>
  /\ ~tmp[1].whole
  /\ disk # <<>>
  /\ disk = wr.old
  /\ tmp[1].of # disk

\* the delays 100, 200, ... of the first n waits
Delays(n) == [k \in 1..n |-> DelayUnit * k]

\* C15: a call of FileStorage.write attempts the rename at most 5 times; it
\* returns at the first attempt that succeeds and attempts nothing more; it
\* has waited 100 ms times the attempt number after each failed attempt but
\* the fifth; after the fifth failure it throws that failure's error; and a
\* call that goes on comes to its end.
C15_WriteTerminates ==
  /\ [](/\ wr.tries <= Attempts
        /\ wr.pc = "rename" => wr.tries < Attempts
        /\ wr.pc \in {"rename", "wait", "done", "failed"} =>
              wr.waited = Delays(Len(wr.waited))
        /\ wr.pc = "done" =>
              /\ wr.tries = Len(wr.errs) + 1
              /\ Len(wr.waited) = Len(wr.errs)
        /\ wr.pc = "wait" => Len(wr.waited) = wr.tries - 1
        /\ wr.pc = "rename" => Len(wr.waited) = wr.tries
        /\ (wr.pc = "failed" /\ wr.tries > 0) =>
              /\ wr.tries = Attempts
              /\ Len(wr.errs) = Attempts
              /\ wr.res = wr.errs[Attempts]
              /\ wr.waited = Delays(Attempts - 1))
  /\ [][wr.pc \in {"done", "failed"} => wr'.pc = "writeFile"]_vars
  /\ (~FSIdle ~> FSIdle)

\* a call whose five attempts failed has waited 100, 200, 300 and 400 ms and
\* thrown the error of the fifth
C15_Witness ==
  /\ wr.pc = "failed"
  /\ wr.tries = 5
  /\ wr.waited = <<100, 200, 300, 400>>
  /\ wr.errs = <<"EPERM", "EPERM", "EPERM", "EPERM", "EBUSY">>
  /\ wr.res = "EBUSY"

------------------------------------------------------------------------------
(* Persistence after a mutation *)

\* a mutation outside a transaction that came back without an error and
\* changed at least one record
MutationDone ==
  /\ ~inTransaction
  /\ last'.op \in {"insert", "update", "remove"}
  /\ last'.res = "ok"
  /\ last'.count > 0

\* C16: after an insert that succeeded, an update that updated at least one
\* record and a remove that removed at least one record, outside a
\* transaction, what the backend reads back equals the live snapshot:
\* records, serial, indices and relations.
C16_PersistedIsLive ==
  [][MutationDone =>
       /\ disk' # <<>>
       /\ SameContent(Read(disk'), data')
       /\ Read(disk') = data']_vars

\* an update outside a transaction changed the one user after a relation was
\* defined, and the file holds the changed user and the relation
C16_Witness ==
  /\ ~inTransaction
  /\ last.op = "update"
  /\ last.res = "ok"
  /\ last.count = 1
  /\ data.relations["users"]["ref"] # NoRel
  /\ data.data["users"][1].email = ValB
  /\ disk # <<>>
  /\ disk[1].data["users"][1].email = ValB
  /\ disk[1].relations = data.relations

------------------------------------------------------------------------------
(* Populate *)

\* the first record, in collection order, of the collection a relation
\* refers to whose referenced field holds val: <<record>>, or <<>>
FirstReferenced(root, rel, val) ==
  LET list == root.data[rel.ref]
      hits == {i \in 1..Len(list) : list[i][rel.field] = val}
  IN IF hits = {} THEN <<>>
     ELSE <<list[CHOOSE i \in hits : \A j \in hits : i <= j]>>

\* the positions of the records of a collection that a query matches, all
\* of them or the first only
Matched(root, name, q, one) ==
  LET list == root.data[name]
      hits == {i \in 1..Len(list) : Match(list[i], q)}
  IN IF one THEN {i \in hits : \A j \in hits : i <= j} ELSE hits

\* what a find or findOne with populate returned is, record by record, a
\* copy of the matched record whose relation field, under the relation
\* definitions defs, holds a copy of the first referenced record when the
\* value is present, not null and referenced, and the raw value otherwise
PopulatedAs(defs) ==
  LET name == last'.coll
      one == last'.op = "findOnePopulate"
      list == Active.data[name]
      hits == Matched(Active, name, last'.q, one)
      rel == defs[name]["ref"]
  IN /\ Len(returned') = Cardinality(hits)
     /\ \A k \in 1..Len(returned') :
          LET h == returned'[k]
              doc == list[CHOOSE i \in hits :
                            Cardinality({j \in hits : j < i}) = k - 1]
              first == IF rel = NoRel \/ doc.ref \in {Undef, Null} THEN <<>>
                       ELSE FirstReferenced(Active, rel, doc.ref)
          IN /\ h.val = doc
             /\ h.at = <<>>
             /\ Len(h.pop) = Len(first)
             /\ first # <<>> => h.pop[1].val = first[1] /\ h.pop[1].at = <<>>
     /\ Active'.data = Active.data

PopulateStep == last'.op \in {"findPopulate", "findOnePopulate"}

\* C17 as stated: find and findOne with populate return, for each matched
\* record, a copy whose relation field, for every relation defined, holds the
\* first record in collection order of the referenced collection whose
\* referenced field equals the value when that value is present and not
\* null, and the raw value when no record matches; the stored record keeps
\* the raw value.
C17_Populate == [][PopulateStep => PopulatedAs(Active.relations)]_vars

\* C17, amended: the same for the relations defined in the live snapshot; a
\* relation defined in an open transaction is not populated before commit.
C17_PopulateLive == [][PopulateStep => PopulatedAs(data.relations)]_vars

\* find with populate returned two users that hold the same email; the
\* second refers to that email and its relation field holds the first, while
\* the stored record keeps the raw value
C17_Witness ==
  /\ last.op = "findPopulate"
  /\ Len(returned) = 2
  /\ returned[1].val.email = ValA
  /\ returned[2].val.email = ValA
  /\ returned[2].pop # <<>>
  /\ returned[2].pop[1].val.id = MakeId(1, "users")
  /\ Active.data["users"][2].ref = ValA

------------------------------------------------------------------------------
(* Relation lookups inside a transaction *)

\* an insert inside a transaction of a payload whose relation field, under
\* a relation of the live snapshot, holds a value that is present and not
\* null
ChildInsertInTx ==
  /\ inTransaction
  /\ last'.op = "insert"
  /\ RelationOf(data, last'.coll) # NoRel
  /\ last'.doc.ref \notin {Undef, Null}

\* C18 as stated: while a transaction is open the relation check looks the
\* referenced record up in the live committed snapshot, so the insert of a
\* child whose value only a parent inserted earlier in the same transaction
\* holds fails with a Relation-integrity error.
C18_LookupInLive ==
  [][(/\ ChildInsertInTx
      /\ ~Referenced(data, RelationOf(data, last'.coll), last'.doc.ref))
       => last'.res = "relation"]_vars

\* C18, amended: while a transaction is open the relation check looks the
\* referenced record up in the sandbox: the insert of a child fails with a
\* Relation-integrity error exactly when no record of the sandbox holds the
\* value, whatever the live snapshot holds; a child of a parent inserted
\* earlier in the same transaction is appended to the sandbox.
C18_LookupInSandbox ==
  [][ChildInsertInTx =>
       LET rel == RelationOf(data, last'.coll)
           name == last'.coll
       IN IF Referenced(transactionData[1], rel, last'.doc.ref)
            THEN /\ last'.res = "ok"
                 /\ Len(transactionData'[1].data[name]) =
                      Len(transactionData[1].data[name]) + 1
                 /\ data' = data
            ELSE /\ last'.res = "relation"
                 /\ transactionData'[1].data = transactionData[1].data]_vars

\* a transaction holds a user and a post that refers to it, both inserted
\* in it; the live snapshot, which holds the relation, holds neither
C18_Witness ==
  /\ inTransaction
  /\ last.op = "insert" /\ last.coll = "posts" /\ last.res = "ok"
  /\ RelationOf(data, "posts") # NoRel
  /\ data.data["users"] = <<>>
  /\ data.data["posts"] = <<>>
  /\ Len(transactionData[1].data["users"]) = 1
  /\ Len(transactionData[1].data["posts"]) = 1
  /\ transactionData[1].data["posts"][1].ref =
       transactionData[1].data["users"][1].email

------------------------------------------------------------------------------
(* Storage round trip *)

\* the value the last write passed to a backend, while the caller still
\* holds that object
SentTo(on) ==
  IF held.sent # <<>> /\ held.sent[1].on = on THEN <<held.sent[1].was>>
  ELSE <<>>

\* C19: for MemoryStorage and FileStorage, a read after a write returns a
\* snapshot equal to the one written, field by field and record by record,
\* whatever the caller has done since to the object it wrote or to an object
\* it had read; and a change the caller makes to either object changes
\* neither what the backend holds nor what a read returns.
C19_RoundTrip ==
  /\ [][last'.op = "read" =>
          LET sent == SentTo(last'.coll)
          IN /\ sent # <<>> => /\ held'.got[1].val = sent[1]
                               /\ SameContent(held'.got[1].val, sent[1])
             /\ held'.got[1].val =
                  (IF last'.coll = "mem" THEN mem ELSE Read(disk))]_vars
  /\ [][last'.op = "mutateHeld" =>
          /\ mem' = mem
          /\ disk' = disk
          /\ Copied(mem').val = Copied(mem).val
          /\ Read(disk') = Read(disk)]_vars
  /\ [](\A snap \in CallerSnaps :
          /\ Parse(Stringify(snap)) = snap
          /\ Read(Write(snap)) = snap)

\* a caller wrote to MemoryStorage a snapshot whose user holds a string with
\* a quote and a backslash, emptied the object it had passed, and read the
\* snapshot back as it had written it
C19_Witness ==
  /\ last.op = "read" /\ last.coll = "mem"
  /\ held.sent # <<>>
  /\ held.sent[1].on = "mem"
  /\ held.sent[1].val.data["users"] = <<>>
  /\ held.got # <<>>
  /\ held.got[1].val = held.sent[1].was
  /\ Len(held.got[1].val.data["users"]) = 1
  /\ held.got[1].val.data["users"][1].email = ValQ
  /\ held.got[1].val.serial = 12

------------------------------------------------------------------------------
(* Definitions of indexes and relations *)

\* the index and relation definitions of a root
Metadata(root) == [indices |-> root.indices, relations |-> root.relations]

\* a createIndex that sets again the definition that the call before it, a
\* createIndex on the same collection, had set
IndexSetAgain ==
  /\ last.op = "createIndex"
  /\ last'.op = "createIndex"
  /\ last'.coll = last.coll
  /\ Active'.indices[last'.coll] = Active.indices[last'.coll]

\* a defineRelation that sets again the definition that the call before it,
\* a defineRelation on the same collection, had set
RelationSetAgain ==
  /\ last.op = "defineRelation"
  /\ last'.op = "defineRelation"
  /\ last'.coll = last.coll
  /\ Active'.relations[last'.coll] = Active.relations[last'.coll]

------------------------------------------------------------------------------
(* Timestamps *)

\* C21: the clock may give the same instant to consecutive readings; a
\* record just inserted has updated_at equal to created_at, and every record
\* that a successful update updated has updated_at strictly later than its
\* created_at.
C21_UpdatedAfterCreated ==
  [][/\ InsertedStep => Inserted.updated_at = Inserted.created_at
     /\ (last'.op = "update" /\ last'.res = "ok") =>
          \A i \in 1..Len(After) :
            Match(Before[i], last'.q) =>
              DigitsValue(After[i].updated_at) >
                DigitsValue(After[i].created_at)]_vars

------------------------------------------------------------------------------
(* Load *)

\* C22: a load on a backend with no file does not fail: it installs the
\* empty snapshot, with serial 0 and no index, relation, collection or
\* record; a load whose read fails for another reason ends with the
\* backend's error and leaves the live snapshot it had; any other load
\* installs what the file holds.
C22_Load ==
  [][last'.op = "load" =>
       IF faults' = faults
         THEN /\ last'.res = "ok"
              /\ disk = <<>> =>
                    /\ data'.serial = 0
                    /\ \A c \in Colls :
                         /\ data'.data[c] = <<>>
                         /\ \A f \in IdxFields : data'.indices[c][f] = "none"
                         /\ \A f \in RelFields : data'.relations[c][f] = NoRel
                    /\ data'.keys = {}
              /\ disk # <<>> => data' = disk[1]
         ELSE /\ last'.res = "backend"
              /\ data' = data]_vars

\* a load on a backend with no file, after an insert whose write failed had
\* left its record in memory, installed the empty snapshot
C22_Witness ==
  /\ last.op = "load"
  /\ last.res = "ok"
  /\ disk = <<>>
  /\ issued = {1}
  /\ ~inTransaction
  /\ data = EmptySnapshot

------------------------------------------------------------------------------
(* Upsert *)

\* an upsert that came back without an error
UpsertStep == last'.op \in {"upsertInsert", "upsertUpdate"} /\ last'.res = "ok"

\* the flags the afterUpsert hooks of a step were called with
UpsertFlags(log) ==
  {log[i].arg : i \in {j \in 1..Len(log) : log[j].event = "afterUpsert"
                                           /\ log[j].phase = "start"}}

\* C23: upsert(query, data): when at least one record matches the query,
\* exactly the first matching record is updated with the data, the number of
\* records does not change, and the refreshed record is returned, the
\* afterUpsert hooks being called with the flag false; when no record
\* matches, exactly one record is inserted and returned, the afterUpsert
\* hooks being called with the flag true.
C23_Upsert ==
  [][UpsertStep =>
       LET pos == MatchPositions(Before, last'.q, 1)
       IN IF pos # <<>>
            THEN /\ Len(After) = Len(Before)
                 /\ \A i \in 1..Len(Before) :
                      i # pos[1] => After[i] = Before[i]
                 /\ \A f \in {"email", "ref"} :
                      After[pos[1]][f] =
                        IF last'.doc[f] # Undef THEN last'.doc[f]
                        ELSE Before[pos[1]][f]
                 /\ After[pos[1]].id = Before[pos[1]].id
                 /\ Len(returned') = 1
                 /\ returned'[1].val = After[pos[1]]
                 /\ UpsertFlags(last'.hooks) \subseteq {FALSE}
            ELSE /\ Len(After) = Len(Before) + 1
                 /\ \A i \in 1..Len(Before) : After[i] = Before[i]
                 /\ \A f \in {"email", "ref"} :
                      After[Len(After)][f] = last'.doc[f]
                 /\ Len(returned') = 1
                 /\ returned'[1].val = After[Len(After)]
                 /\ UpsertFlags(last'.hooks) \subseteq {TRUE}]_vars

\* an upsert updated the first of two records that matched its query and its
\* afterUpsert hook was told so
C23_Witness ==
  /\ last.op = "upsertUpdate"
  /\ last.res = "ok"
  /\ UpsertFlags(last.hooks) = {FALSE}
  /\ Len(Active.data["users"]) = 2
  /\ \A i \in 1..2 : Match(Active.data["users"][i], last.q)
  /\ Active.data["users"][1].ref = ValA
  /\ Active.data["users"][2].ref = ValB
  /\ Len(returned) = 1
  /\ returned[1].val = Active.data["users"][1]

------------------------------------------------------------------------------
(* Remove and update *)

\* C24: remove(query) deletes exactly the records matching the query: after
\* it no record of the collection matches, the records that did not match
\* remain, with their content and in their order; the value returned is the
\* number of records deleted; and when that number is 0 no record changes
\* and neither backup nor write is called on the backend.
C24_Remove ==
  [][last'.op = "remove" =>
       /\ \A i \in 1..Len(After) : ~Match(After[i], last'.q)
       /\ After = SelectSeq(Before, LAMBDA d : ~Match(d, last'.q))
       /\ \A c \in Colls \ {last'.coll} : Active'.data[c] = Active.data[c]
       /\ last'.res = "ok" => last'.count = Len(Before) - Len(After)
       /\ Len(After) = Len(Before) =>
            /\ last'.res = "ok"
            /\ last'.count = 0
            /\ After = Before
            /\ last'.calls = <<>>
            /\ disk' = disk
            /\ bak' = bak]_vars

\* a remove took the second of three records away and returned 1
C24_Witness ==
  /\ last.op = "remove"
  /\ last.res = "ok"
  /\ last.count = 1
  /\ last.q = FieldQuery("email", ValA)
  /\ ~inTransaction
  /\ Len(data.data["users"]) = 2
  /\ data.data["users"][1].id = MakeId(HighStart, "users")
  /\ data.data["users"][2].id = MakeId(HighStart + 2, "users")
  /\ disk = Write(data)

\* a call of write reached the backend
Written(calls) == \E i \in 1..Len(calls) : calls[i] = "write"

\* what C25 says of the records, and of the value returned, of an update
\* that came back without an error
UpdatedAsPatched ==
  /\ Len(After) = Len(Before)
  /\ last'.count = Cardinality({i \in 1..Len(Before) : Match(Before[i], last'.q)})
  /\ \A i \in 1..Len(Before) :
       IF Match(Before[i], last'.q)
         THEN /\ \A f \in {"email", "ref"} :
                   After[i][f] = IF last'.doc[f] # Undef THEN last'.doc[f]
                                 ELSE Before[i][f]
              /\ After[i].id = Before[i].id
              /\ After[i].created_at = Before[i].created_at
         ELSE After[i] = Before[i]

\* C25 as stated: a successful update(query, patch) returns the number of
\* records that matched the query when it was called; each of them ends with
\* the patch's non-system fields set to the patch's values and its other
\* fields, updated_at apart, unchanged; the other records are unchanged; and
\* the backend is written if and only if the count returned is above 0.
C25_Update ==
  [][(last'.op = "update" /\ last'.res = "ok") =>
       /\ UpdatedAsPatched
       /\ Written(last'.calls) <=> last'.count > 0]_vars

\* C25, amended: the same of the records and of the value returned; outside
\* a transaction the backend is written if and only if the count returned
\* is above 0, and inside a transaction it is not written at all.
C25_UpdateOutsideTransaction ==
  [][(last'.op = "update" /\ last'.res = "ok") =>
       /\ UpdatedAsPatched
       /\ Written(last'.calls) <=> (last'.count > 0 /\ ~inTransaction)
       /\ Written(last'.calls) => disk' = Write(data')
       /\ ~Written(last'.calls) => disk' = disk]_vars

\* an update outside a transaction changed the two records of three that
\* matched, by a patch that also names the system fields, and was persisted
C25_Witness ==
  /\ last.op = "update"
  /\ last.res = "ok"
  /\ last.count = 2
  /\ last.doc = ForgedDoc(ValB)
  /\ ~inTransaction
  /\ Written(last.calls)
  /\ Len(data.data["users"]) = 3
  /\ \A i \in 1..3 : data.data["users"][i].email = ValB
  /\ data.data["users"][2].id = MakeId(HighStart + 1, "users")
  /\ disk = Write(data)

------------------------------------------------------------------------------
(* Hooks *)

\* the events whose hooks run at the first line of an operation
BeforeEvents == {"beforeInsert", "beforeUpdate", "beforeRemove", "beforeUpsert"}

\* the ids of the callbacks that a step began for an event, in the order it
\* began them
StartedFor(log, event) ==
  LET starts == SelectSeq(log, LAMBDA e : e.event = event /\ e.phase = "start")
  IN [i \in 1..Len(starts) |-> starts[i].id]

\* the record of a run is a callback that began and then ended, one after
\* another, a callback that threw being the last
OneAtATime(log) ==
  /\ Len(log) % 2 = 0
  /\ \A i \in 1..Len(log) :
       IF i % 2 = 1
         THEN log[i].phase = "start"
         ELSE /\ log[i].phase \in {"end", "throw"}
              /\ log[i].event = log[i - 1].event
              /\ log[i].id = log[i - 1].id
              /\ log[i].phase = "throw" => i = Len(log)

\* the callbacks began for each event are those registered for it, in the
\* order of their registration, from the first one again for each run
InRegistrationOrder(log, registered) ==
  \A event \in HookEvents :
    LET ids == StartedFor(log, event)
        list == registered[event]
    IN \A k \in 1..Len(ids) :
         /\ list # <<>>
         /\ ids[k] = list[((k - 1) % Len(list)) + 1].id

\* a before-hook threw in the step
BeforeHookThrew(log) ==
  /\ log # <<>>
  /\ log[Len(log)].phase = "throw"
  /\ log[Len(log)].event \in BeforeEvents

\* C26: the hooks registered for one event run one at a time in the order of
\* their registration, each ending before the next begins; when a before-hook
\* throws, the hooks after it are not run and the operation is aborted with
\* the error before any record, the serial or the metadata of the active root
\* has changed and before any call of the backend; when none throws, every
\* hook registered for the operation's before event has run.
C26_Hooks ==
  [][LET log == last'.hooks
     IN /\ OneAtATime(log)
        /\ last'.coll \in Colls => InRegistrationOrder(log, hooks[last'.coll])
        /\ BeforeHookThrew(log) =>
             /\ last'.res = "hook"
             /\ last'.calls = <<>>
             /\ disk' = disk
             /\ Active'.data = Active.data
             /\ Active'.serial = Active.serial
             /\ Active'.indices = Active.indices
             /\ Active'.relations = Active.relations
             /\ data' = [data EXCEPT !.keys = data'.keys]
             /\ returned' = <<>>
        /\ (last'.op = "insert" /\ ~BeforeHookThrew(log)) =>
             Len(StartedFor(log, "beforeInsert")) =
               Len(hooks["users"]["beforeInsert"])]_vars

\* an insert was aborted by the second of its two beforeInsert hooks, after
\* the first one had ended, while the collection held a record
C26_Witness ==
  /\ last.op = "insert"
  /\ last.res = "hook"
  /\ Len(last.hooks) = 4
  /\ last.hooks[1].id = 1
  /\ last.hooks[2].phase = "end"
  /\ last.hooks[3].id = 2
  /\ last.hooks[4].phase = "throw"
  /\ last.hooks[4].event = "beforeInsert"
  /\ Len(Active.data["users"]) = 1

------------------------------------------------------------------------------
(* Queries *)

\* the records of the step's collection that its query matches, in
\* collection order
Matching == SelectSeq(Before, LAMBDA d : Match(d, last'.q))

\* C27: findOne(query) returns a copy of the first record, in collection
\* order, that matches the query, equal to the first element of find(query)
\* without sort; it returns null when no record matches and when the
\* collection has never been written, and raises no error then.
C27_FindOne ==
  [][last'.op = "findOne" =>
       /\ last'.res = "ok"
       /\ IF Matching = <<>>
            THEN returned' = <<>>
            ELSE /\ Len(returned') = 1
                 /\ returned'[1].val = Matching[1]
                 /\ returned'[1].at = <<>>
                 /\ returned'[1] =
                      FoundSorted(Active, last'.coll, last'.q, <<>>)[1]
       /\ last'.coll \notin Active.keys => returned' = <<>>]_vars

\* findOne gave the first of the two records that matched, the first and
\* the third of the collection
C27_Witness ==
  /\ last.op = "findOne"
  /\ last.q = FieldQuery("email", ValB)
  /\ Len(Active.data["users"]) = 3
  /\ Active.data["users"][2].email = ValA
  /\ Active.data["users"][3].email = ValB
  /\ Len(returned) = 1
  /\ returned[1].val = Active.data["users"][1]

\* the values of the records returned
ReturnedValues(r) == [i \in 1..Len(r) |-> r[i].val]

\* b is a with its elements in another order, each element once
Rearranged(a, b) ==
  /\ Len(a) = Len(b)
  /\ \A i \in 1..Len(a) : \E j \in 1..Len(b) : b[j] = a[i]
  /\ \A i \in 1..Len(b) : \E j \in 1..Len(a) : a[j] = b[i]

\* the place of a record among the records matching
PlaceOf(doc) == CHOOSE k \in 1..Len(Matching) : Matching[k] = doc

\* C28: find(query) without sort returns copies of exactly the records
\* matching the query, in collection order, all records for the empty query;
\* with a sort option it returns the same records in ascending or descending
\* order of the sort field, records with equal values in collection order;
\* either way the collection's order and records, the serial and the
\* metadata stay as they were and no call of the backend is made. Of two
\* records returned that both hold a string in the sort field, the one with
\* the smaller string comes first when ascending, last when descending.
C28_Find ==
  [][last'.op = "findSorted" =>
       LET got == ReturnedValues(returned')
           sort == last'.sort
       IN /\ \A i \in 1..Len(returned') : returned'[i].at = <<>>
          /\ sort = <<>> => got = Matching
          /\ (sort = <<>> /\ last'.q = AllQuery) => got = Before
          /\ sort # <<>> =>
               /\ Rearranged(Matching, got)
               /\ \A i, j \in 1..Len(got) :
                    i < j =>
                      LET a == got[i][sort[1]]
                          b == got[j][sort[1]]
                      IN IF a = b THEN PlaceOf(got[i]) < PlaceOf(got[j])
                         ELSE IF Undef \in {a, b} THEN TRUE
                         ELSE IF sort[2] = "asc" THEN LexLess(a, b)
                         ELSE LexLess(b, a)
          /\ After = Before
          /\ Active'.serial = Active.serial
          /\ Active'.indices = Active.indices
          /\ Active'.relations = Active.relations
          /\ last'.calls = <<>>
          /\ disk' = disk
          /\ bak' = bak]_vars

\* the properties of an object, whatever their order
Props(obj) == {obj.e[i] : i \in 1..Len(obj.e)}

\* C29: for a query key whose value is a non-array object, a document
\* matches exactly when the value of its field is deeply equal to the query
\* value, equality of objects ignoring the order of their keys and equality
\* of arrays respecting the order of their elements; a stored {a:1, b:2}
\* matches the query value {b:2, a:1}.
C29_ObjectMatch ==
  [][last'.op = "match" =>
       LET matches == last'.count = 1
           deeplyEqual ==
             /\ last'.doc.email.t = "obj"
             /\ Props(last'.doc.email) = Props(last'.q.v)
       IN matches <=> deeplyEqual]_vars

------------------------------------------------------------------------------
(* beginTransaction *)

\* the operations of the Store itself, as last names them
StoreOps == {"create", "load", "begin", "commit", "rollback"}

\* C30: right after any beginTransaction, whether a transaction was open or
\* not, the sandbox, the live snapshot and the snapshot the backend holds are
\* equal, so the changes of a sandbox that was open and not committed are
\* gone; and from then until commit or rollback no operation of a collection
\* and no definition of an index or a relation changes the live snapshot.
C30_BeginTransaction ==
  [][/\ (last'.op = "begin" /\ last'.res = "ok") =>
          /\ inTransaction'
          /\ transactionData' = <<data'>>
          /\ data' = Read(disk')
          /\ disk' = disk
     /\ (inTransaction /\ last'.op \notin StoreOps) =>
          /\ inTransaction'
          /\ data' = data]_vars

\* a transaction was begun while the only record ever inserted was in a
\* sandbox: the new sandbox and the live snapshot hold what the backend
\* holds, no record
C30_Witness ==
  /\ last.op = "begin"
  /\ last.res = "ok"
  /\ inTransaction
  /\ issued = {1}
  /\ faults = 0
  /\ disk = <<>>
  /\ txBase = <<EmptySnapshot>>
  /\ transactionData = <<EmptySnapshot>>
  /\ data = EmptySnapshot

------------------------------------------------------------------------------
(* Definitions and persistence *)

\* the indices and relations of a snapshot
Definitions(root) == [indices |-> root.indices, relations |-> root.relations]

\* C31: createIndex and defineRelation call no backend and change nothing
\* but the metadata of the active root. Outside a transaction the definition
\* is in the live snapshot and reaches the backend only with a save that
\* succeeds; inside a transaction it is in the sandbox only, is live and
\* persisted once commit has succeeded, and is gone after rollback.
C31_Definitions ==
  [][/\ last'.op \in {"createIndex", "defineRelation"} =>
          /\ last'.calls = <<>>
          /\ disk' = disk
          /\ bak' = bak
          /\ inTransaction' = inTransaction
          /\ Active'.data = Active.data
          /\ Active'.serial = Active.serial
          /\ Active'.keys = Active.keys
          /\ inTransaction => data' = data
          /\ IF last'.op = "createIndex"
               THEN /\ Active'.indices[last'.coll]["email"] # "none"
                    /\ Active'.relations = Active.relations
               ELSE /\ Active'.relations[last'.coll]["ref"] # NoRel
                    /\ Active'.indices = Active.indices
     /\ Definitions(Read(disk')) # Definitions(Read(disk)) =>
          /\ last'.res = "ok"
          /\ Written(last'.calls)
          /\ Definitions(Read(disk')) = Definitions(data')
     /\ (inTransaction /\ last'.op = "commit" /\ last'.res = "ok") =>
          /\ Definitions(data') = Definitions(transactionData[1])
          /\ Definitions(Read(disk')) = Definitions(transactionData[1])
     /\ RollbackStep =>
          /\ data' = data
          /\ Active' = data]_vars

\* a unique index and a relation defined inside a transaction have been
\* committed: the live snapshot and the backend hold them
C31_Witness ==
  /\ last.op = "commit"
  /\ last.res = "ok"
  /\ txBase = <<>>
  /\ data.indices["users"]["email"] = "unique"
  /\ data.relations["users"]["ref"] # NoRel
  /\ disk # <<>>
  /\ Definitions(disk[1]) = Definitions(data)
  /\ issued = {}

------------------------------------------------------------------------------
(* Referential integrity *)

\* every record of a collection with a relation whose field is present and
\* not null has a record of the referenced collection holding its value
Integrity(root) ==
  \A name \in Colls :
    LET rel == RelationOf(root, name)
    IN rel # NoRel =>
         \A i \in 1..Len(root.data[name]) :
           LET val == root.data[name][i].ref
           IN val \in {Undef, Null} \/ Referenced(root, rel, val)

\* C32: referential integrity is an invariant: once a relation has been
\* defined on empty collections, every state that insert, update, upsert and
\* remove lead to has, for every record of the collection whose field is
\* present and not null, a record of the referenced collection holding that
\* value. Holding before any record exists, it is kept by each of the four
\* when the call returns without an error.
C32_Integrity ==
  [][(/\ last'.op \in {"insert", "update", "upsertInsert", "upsertUpdate",
                        "remove"}
      /\ last'.res = "ok"
      /\ Integrity(Active)) => Integrity(Active')]_vars

------------------------------------------------------------------------------
(* Which definitions are read *)

\* the relation of the live snapshot on the step's collection
LiveRelation == RelationOf(data, last'.coll)

\* C33: the integrity check and populate read the relation definitions of
\* the live snapshot, defineRelation writes to the active root: a relation
\* defined while a transaction is open is not enforced on the inserts and
\* updates of that transaction and not applied by its populate, and is once
\* the commit has made it live; a unique index created inside a transaction
\* is enforced inside it at once.
C33_LiveDefinitions ==
  [][/\ last'.op \in {"insert", "update"} =>
          /\ LiveRelation = NoRel => last'.res # "relation"
          /\ last'.res = "relation" =>
               ~Referenced(Active, LiveRelation, last'.doc.ref)
          /\ (/\ last'.op = "insert"
              /\ LiveRelation # NoRel
              /\ last'.doc.ref \notin {Undef, Null}
              /\ ~Referenced(Active, LiveRelation, last'.doc.ref))
               => last'.res \in {"relation", "unique"}
     /\ last'.op = "findPopulate" =>
          \A k \in 1..Len(returned') :
            LET h == returned'[k]
            IN IF LiveRelation = NoRel THEN h.pop = <<>>
               ELSE h.pop = <<>> <=>
                      \/ h.val.ref \in {Undef, Null}
                      \/ ~Referenced(Active, LiveRelation, h.val.ref)
     /\ (/\ last'.op = "insert"
         /\ UniqueIndexed(Active, last'.coll)
         /\ Held(Active, last'.coll, last'.doc)) => last'.res = "unique"]_vars

\* inside a transaction that defined the relation, a user referring to an
\* email no user holds was inserted, the live snapshot having no relation
C33_Witness ==
  /\ inTransaction
  /\ last.op = "insert"
  /\ last.res = "ok"
  /\ last.doc.ref = ValB
  /\ RelationOf(data, "users") = NoRel
  /\ RelationOf(transactionData[1], "users") # NoRel
  /\ ~Referenced(transactionData[1], RelationOf(transactionData[1], "users"),
                 ValB)
  /\ Len(transactionData[1].data["users"]) = 1

------------------------------------------------------------------------------
(* Saves that throw *)

\* C34: an insert outside a transaction whose save throws, from backup or
\* from write, ends with that error and leaves the root in memory as it was:
\* the record is not in the collection and the serial is the one before the
\* call, so a live snapshot that equalled the backend's still does.
C34_FailedInsert ==
  [][(last'.op = "insert" /\ ~inTransaction /\ faults' # faults) =>
       /\ last'.res = "backend"
       /\ data'.data = data.data
       /\ data'.serial = data.serial
       /\ SameContent(data, Read(disk)) => SameContent(data', Read(disk'))]_vars

\* the last call was a commit whose save threw
CommitFailed == last.op = "commit" /\ last.res = "backend"

\* C35: a commit whose save throws ends with the backend's error, with the
\* transaction closed, the live snapshot equal to the sandbox and the backend
\* still holding what it held; a commit that follows makes no backend call
\* and a rollback that follows leaves the live snapshot as the failed commit
\* left it.
C35_FailedCommit ==
  [][/\ (last'.op = "commit" /\ last'.res = "backend") =>
          /\ inTransaction /\ ~inTransaction'
          /\ transactionData' = <<>>
          /\ data' = transactionData[1]
          /\ disk' = disk
     /\ (CommitFailed /\ last'.op = "commit") =>
          /\ last'.res = "noop" /\ last'.calls = <<>>
          /\ disk' = disk /\ bak' = bak /\ data' = data
     /\ (CommitFailed /\ last'.op = "rollback") =>
          /\ data' = data /\ ~inTransaction']_vars

\* a commit's save has thrown and the live snapshot holds the sandbox's
\* record, which the backend does not
C35_Witness ==
  /\ CommitFailed
  /\ ~inTransaction
  /\ data.data # Read(disk).data

------------------------------------------------------------------------------
(* After-hooks that throw *)

\* the events whose hooks run at the end of insert, update and remove
AfterEvents == {"afterInsert", "afterUpdate", "afterRemove"}

\* an after-hook threw in the step
AfterHookThrew(log) ==
  /\ log # <<>>
  /\ log[Len(log)].phase = "throw"
  /\ log[Len(log)].event \in AfterEvents

\* C36: when an afterInsert hook throws, insert ends with the hook's error
\* although the record has been appended to the active root, its serial
\* consumed and, outside a transaction, the snapshot written to the backend;
\* in the same way an afterUpdate hook throws after the matching records are
\* updated and saved, and an afterRemove hook after the matching records are
\* removed and saved.
C36_AfterHooks ==
  [][(last'.op \in {"insert", "update", "remove"} /\ AfterHookThrew(last'.hooks)) =>
       /\ last'.res = "hook"
       /\ returned' = <<>>
       /\ last'.op = "insert" =>
            /\ Len(After) = Len(Before) + 1
            /\ SubSeq(After, 1, Len(Before)) = Before
            /\ Inserted.email = last'.doc.email
            /\ Active'.serial = Active.serial + 1
            /\ last'.count = 1
       /\ last'.op = "update" =>
            /\ last'.count > 0
            /\ UpdatedAsPatched
       /\ last'.op = "remove" =>
            /\ After = SelectSeq(Before, LAMBDA d : ~Match(d, last'.q))
            /\ last'.count = Len(Before) - Len(After)
       /\ IF inTransaction
            THEN disk' = disk /\ last'.calls = <<>>
            ELSE last'.count > 0 => (Written(last'.calls) /\ disk' = Write(data'))]_vars

\* an insert outside a transaction ended with the error of an afterInsert
\* hook, and its record is in the live snapshot and in the backend's
C36_Witness ==
  /\ last.op = "insert"
  /\ last.res = "hook"
  /\ AfterHookThrew(last.hooks)
  /\ ~inTransaction
  /\ data.data[last.coll] # <<>>
  /\ disk = Write(data)

\* the same for an update and for a remove of at least one record
C36_OtherWitness ==
  /\ last.op \in {"update", "remove"}
  /\ last.res = "hook"
  /\ AfterHookThrew(last.hooks)
  /\ last.count > 0

------------------------------------------------------------------------------
(* Inserts in flight at once *)

\* the calls of insert that have appended their record and await _save
Appended == {c \in Calls : pending[c].pc = "save"}

\* a turn in which a call of insert appended a record
AppendTurn(c) == pending[c].pc = "relations" /\ pending'[c].pc = "save"

\* C37: with several inserts in flight at once outside any transaction,
\* every record appended gets an id distinct from the ids of all other
\* records: the turn that takes the serial is the turn that appends the
\* record, with the id made from that serial.
C37_DistinctIds ==
  /\ [](~inTransaction => DistinctIds(data))
  /\ [][\A c \in Calls : (AppendTurn(c) /\ ~inTransaction) =>
          /\ data'.serial = data.serial + 1
          /\ pending'[c].made.id = MakeId(data'.serial, pending[c].coll)
          /\ data'.data[pending[c].coll] =
               Append(data.data[pending[c].coll], pending'[c].made)
          /\ \A doc \in AllDocs(data) : doc.id # pending'[c].made.id]_vars

\* two calls of insert have each appended a record and neither has returned
C37_Witness ==
  /\ ~inTransaction
  /\ Cardinality(Appended) = 2
  /\ Len(data.data["users"]) = 2

\* C38: two inserts with the same value for a field with a unique index,
\* the second begun before the first has returned, never both append their
\* record, in whatever order their turns run.
C38_OneSucceeds ==
  \A c1, c2 \in Appended :
    (/\ c1 # c2
     /\ pending[c1].looked /\ pending[c2].looked
     /\ pending[c1].coll = pending[c2].coll)
    => pending[c1].doc.email # pending[c2].doc.email

====
